---- MODULE Spec2Model ----
(***************************************************************************)
(* Model of the authentication layer (src/09_authentication.py), of the    *)
(* middleware stack (src/11_middleware.py), of the background task         *)
(* registry (src/12_background_tasks.py) and of the WebSocket connection   *)
(* manager (src/15_advanced_features.py).                                  *)
(*                                                                         *)
(* Time is counted in whole seconds, the resolution of a JWT "exp" claim.  *)
(* Python lists used as sets (roles, scopes) are modelled as sets.         *)
(***************************************************************************)
EXTENDS Integers, Sequences, FiniteSets, TLC

VARIABLES
    now,                \* wall clock, seconds (datetime.now / datetime.utcnow)
    ticks,              \* number of clock advances so far (bounds the run)
    users_db,           \* 09: users_db, id -> UserInDB
    api_keys_db,        \* 09: api_keys_db, key -> APIKey
    revoked_tokens,     \* 09: revoked_tokens
    issued,             \* tokens the server has handed to clients so far
    resp,               \* the last request served and the response it got
    calls,              \* 11: RateLimitMiddleware.calls
    period,             \* 11: RateLimitMiddleware.period
    rate_limit_storage, \* 11: rate_limit_storage, client_ip -> timestamps
    burst,              \* per client: the decisions since its window was last empty
    pending,            \* per client: the rejection it is still waiting out
    requests,           \* 11: the requests inside RateLimitMiddleware.dispatch
    running,            \* 11: the request whose coroutine holds the event loop
    task_storage,       \* 12: task_storage, task_id -> TaskStatus
    background,         \* 12: the background work not yet finished, by task_id
    created,            \* 12: number of task ids create_task_id has handed out
    manager,            \* 15: manager, the ConnectionManager
    endpoints,          \* 15: the websocket routes' coroutines, by websocket
    threads             \* 09: the thread-pool workers inside register_user

authVars == <<users_db, api_keys_db, revoked_tokens, issued>>
rateVars == <<calls, period, rate_limit_storage, burst, pending>>
loopVars == <<requests, running>>
taskVars == <<task_storage, background, created>>
sockVars == <<manager, endpoints>>
moreVars == <<sockVars, threads>>
restVars == <<loopVars, taskVars, moreVars>>
vars == <<now, ticks, users_db, api_keys_db, revoked_tokens, issued, resp,
          calls, period, rate_limit_storage, burst, pending, requests, running,
          task_storage, background, created, manager, endpoints, threads>>

-----------------------------------------------------------------------------
(* Bounds of the model *)

MaxTicks == 3
MaxIssued == 4
MaxUsers == 3
MaxCalls == 2
MaxPeriod == 2
MaxClock == 4
MaxRetries == 2
MaxRequests == 3
MaxLoopClock == 1
MaxTasks == 2
MaxThreads == 2
MaxSockets == 3

-----------------------------------------------------------------------------
(* 09_authentication.py: configuration *)

ACCESS_TOKEN_EXPIRE_MINUTES == 30
REFRESH_TOKEN_EXPIRE_DAYS == 7

AccessTTL == ACCESS_TOKEN_EXPIRE_MINUTES * 60
RefreshTTL == REFRESH_TOKEN_EXPIRE_DAYS * 86400

\* Python's None, for every Optional value of the model.
None == [none |-> TRUE]

Emails == {"admin@example.com", "user@example.com", "new@example.com"}
Passwords == {"admin123", "user123", "wrong"}
AllScopes == {"read", "write", "admin"}

\* pwd_context.hash / pwd_context.verify: a salted one-way hash that verifies
\* exactly the password it was made from.
get_password_hash(password) == [bcrypt |-> password]

verify_password(plain_password, hashed_password) ==
    hashed_password = get_password_hash(plain_password)

-----------------------------------------------------------------------------
(* Credential strings.  A string a client can put in a header is either a  *)
(* JWT (three dot-separated parts: the claims and the key that signed it)  *)
(* or any other text.                                                      *)

Jwt(sub, scopes, exp, typ, key) ==
    [fmt |-> "jwt", text |-> "", sub |-> sub, scopes |-> scopes, exp |-> exp,
     typ |-> typ, key |-> key]

Opaque(text) ==
    [fmt |-> "opaque", text |-> text, sub |-> "", scopes |-> {}, exp |-> 0,
     typ |-> "", key |-> ""]

SECRET_KEY == "your-secret-key-here-make-it-long-and-random"

\* jwt.encode(to_encode, SECRET_KEY, algorithm=ALGORITHM)
jwt_encode(to_encode) ==
    Jwt(to_encode.sub, to_encode.scopes, to_encode.exp, to_encode.type, SECRET_KEY)

\* jwt.decode(token, SECRET_KEY, algorithms=[ALGORITHM]) of python-jose: raises
\* JWTError for a string that is no JWT, for a signature made with another
\* key, and (ExpiredSignatureError, in _validate_exp) `if exp < (now - leeway)`
\* with leeway 0: a token is still accepted in the second now = exp.
jwt_decode(token, t) ==
    IF token.fmt # "jwt" THEN [error |-> "JWTError", reason |-> "malformed"]
    ELSE IF token.key # SECRET_KEY THEN [error |-> "JWTError", reason |-> "signature"]
    ELSE IF token.exp < t THEN [error |-> "JWTError", reason |-> "expired"]
    ELSE [error |-> "", sub |-> token.sub, scopes |-> token.scopes, type |-> token.typ]

create_access_token(data, expires_delta, t) ==
    LET expire == IF expires_delta # 0 THEN t + expires_delta ELSE t + 15 * 60
    IN  jwt_encode([sub |-> data.sub, scopes |-> data.scopes, exp |-> expire,
                    type |-> "access"])

\* The refresh token's payload has no "scopes" entry; verify_token reads it
\* back as the empty list.
create_refresh_token(data, t) ==
    jwt_encode([sub |-> data.sub, scopes |-> {}, exp |-> t + RefreshTTL,
                type |-> "refresh"])

TokenData(email, scopes) == [email |-> email, scopes |-> scopes]

verify_token(token, token_type, t) ==
    IF token \in revoked_tokens THEN None
    ELSE LET payload == jwt_decode(token, t)
         IN  IF payload.error # "" THEN None
             ELSE IF payload.sub = "" \/ payload.type # token_type THEN None
             ELSE TokenData(payload.sub, payload.scopes)

-----------------------------------------------------------------------------
(* User and API-key lookups *)

UserIds == DOMAIN users_db

MinId(S) == CHOOSE m \in S : \A k \in S : m <= k

\* users_db.values() iterates in insertion order, which is ascending id.
get_user_by_email(email) ==
    LET hits == {i \in UserIds : users_db[i].email = email}
    IN  IF hits = {} THEN None ELSE users_db[MinId(hits)]

authenticate_user(email, password) ==
    LET user == get_user_by_email(email)
    IN  IF user = None THEN None
        ELSE IF ~verify_password(password, user.hashed_password) THEN None
        ELSE user

get_api_key_user(api_key, t) ==
    IF api_key.fmt # "opaque" \/ api_key.text \notin DOMAIN api_keys_db THEN None
    ELSE LET key_data == api_keys_db[api_key.text]
         IN  IF ~key_data.is_active THEN None
             ELSE IF key_data.expires_at # None /\ t > key_data.expires_at.at THEN None
             ELSE IF key_data.user_id \in UserIds THEN users_db[key_data.user_id]
             ELSE None

-----------------------------------------------------------------------------
(* HTTP plumbing: the Authorization header and the outcome of a dependency *)

Bearer(credentials) == [present |-> TRUE, scheme |-> "bearer", credentials |-> credentials]
Basic(credentials) == [present |-> TRUE, scheme |-> "basic", credentials |-> credentials]
NoHeader == [present |-> FALSE, scheme |-> "", credentials |-> Opaque("")]

WWWAuthenticate == {<<"WWW-Authenticate", "Bearer">>}

HTTPException(status_code, detail, headers) ==
    [status |-> status_code, detail |-> detail, headers |-> headers, user |-> None]

\* A dependency that returned `user` instead of raising.
Resolved(user) == [status |-> 200, detail |-> "", headers |-> {}, user |-> user]

\* oauth2_scheme = OAuth2PasswordBearer(tokenUrl=...), auto_error left True:
\* without a bearer Authorization header the request is refused.
oauth2_scheme(authorization) ==
    IF ~authorization.present \/ authorization.scheme # "bearer"
    THEN HTTPException(401, "Not authenticated", WWWAuthenticate)
    ELSE [status |-> 200, token |-> authorization.credentials]

\* security = HTTPBearer(auto_error=False): None instead of an error.
security(authorization) ==
    IF ~authorization.present \/ authorization.scheme # "bearer" THEN None
    ELSE [scheme |-> authorization.scheme, credentials |-> authorization.credentials]

-----------------------------------------------------------------------------
(* Dependencies *)

credentials_exception ==
    HTTPException(401, "Could not validate credentials", WWWAuthenticate)

get_current_user(authorization, t) ==
    LET token == oauth2_scheme(authorization)
    IN  IF token.status # 200 THEN token
        ELSE LET token_data == verify_token(token.token, "access", t)
             IN  IF token_data = None THEN credentials_exception
                 ELSE LET user == get_user_by_email(token_data.email)
                      IN  IF user = None THEN credentials_exception
                          ELSE Resolved(user)

get_current_active_user(authorization, t) ==
    LET current_user == get_current_user(authorization, t)
    IN  IF current_user.status # 200 THEN current_user
        ELSE IF ~current_user.user.is_active
             THEN HTTPException(400, "Inactive user", {})
             ELSE current_user

get_api_key_user_dependency(authorization, t) ==
    LET credentials == security(authorization)
    IN  IF credentials = None THEN None
        ELSE IF credentials.scheme # "bearer" THEN None
        ELSE get_api_key_user(credentials.credentials, t)

\* The body of get_current_user_flexible, given what its two dependencies
\* returned.
get_current_user_flexible(jwt_user, api_key_user) ==
    IF jwt_user # None THEN Resolved(jwt_user)
    ELSE IF api_key_user # None THEN Resolved(api_key_user)
    ELSE HTTPException(401, "Authentication required", WWWAuthenticate)

\* Mutant of resolve_flexible: the API key is read from the X-API-Key header
\* and is tried before the bearer token.
resolve_flexible_key_first(request, t) ==
    LET api_key_user == get_api_key_user(request.x_api_key, t)
    IN  IF api_key_user # None THEN Resolved(api_key_user)
        ELSE get_current_user(request.authorization, t)

\* get_current_user_flexible as the framework runs it for a request: its
\* dependencies are solved first, in order, and an HTTPException raised by
\* one of them (get_current_user) ends the request before the body runs.
resolve_flexible(request, t) ==
    LET jwt_user == get_current_user(request.authorization, t)
    IN  IF jwt_user.status # 200 THEN jwt_user
        ELSE get_current_user_flexible(
                 jwt_user.user, get_api_key_user_dependency(request.authorization, t))

require_role(required_role, authorization, t) ==
    LET current_user == get_current_active_user(authorization, t)
    IN  IF current_user.status # 200 THEN current_user
        ELSE IF required_role \notin current_user.user.roles
             THEN HTTPException(403, "Operation requires role", {})
             ELSE current_user

-----------------------------------------------------------------------------
(* Endpoints.  Each handler is the function the route runs: it returns the  *)
(* response together with the stores as the handler leaves them and the     *)
(* tokens it put into the response.                                         *)

Handled(response, users, revoked, tokens) ==
    [response |-> response, users_db |-> users, revoked_tokens |-> revoked,
     tokens |-> tokens]

Token(access_token, refresh_token_, scopes) ==
    [status |-> 200, access_token |-> access_token, refresh_token |-> refresh_token_,
     token_type |-> "bearer", expires_in |-> ACCESS_TOKEN_EXPIRE_MINUTES * 60,
     scopes |-> scopes]

\* Mutant of login: an unknown email is reported as such.
login_leaky(login_request, t) ==
    IF get_user_by_email(login_request.email) = None
    THEN Handled(HTTPException(401, "User not found", WWWAuthenticate),
                 users_db, revoked_tokens, {})
    ELSE LET user == authenticate_user(login_request.email, login_request.password)
         IN  IF user = None
             THEN Handled(HTTPException(401, "Incorrect email or password",
                                        WWWAuthenticate),
                          users_db, revoked_tokens, {})
             ELSE Handled(Token(create_access_token(
                                    [sub |-> user.email, scopes |-> user.scopes],
                                    AccessTTL, t),
                                create_refresh_token([sub |-> user.email], t),
                                user.scopes),
                          [users_db EXCEPT ![user.id].last_login = [at |-> t]],
                          revoked_tokens,
                          {create_access_token(
                               [sub |-> user.email, scopes |-> user.scopes],
                               AccessTTL, t),
                           create_refresh_token([sub |-> user.email], t)})

\* POST /auth/login
login(login_request, t) ==
    LET user == authenticate_user(login_request.email, login_request.password)
    IN  IF user = None
        THEN Handled(HTTPException(401, "Incorrect email or password", WWWAuthenticate),
                     users_db, revoked_tokens, {})
        ELSE LET access_token ==
                     create_access_token([sub |-> user.email, scopes |-> user.scopes],
                                         AccessTTL, t)
                 new_refresh_token == create_refresh_token([sub |-> user.email], t)
             IN  Handled(Token(access_token, new_refresh_token, user.scopes),
                         [users_db EXCEPT ![user.id].last_login = [at |-> t]],
                         revoked_tokens, {access_token, new_refresh_token})

\* POST /auth/refresh
refresh_token(refresh_token_, t) ==
    LET token_data == verify_token(refresh_token_, "refresh", t)
    IN  IF token_data = None
        THEN Handled(HTTPException(401, "Invalid refresh token", {}),
                     users_db, revoked_tokens, {})
        ELSE LET user == get_user_by_email(token_data.email)
             IN  IF user = None
                 THEN Handled(HTTPException(401, "User not found", {}),
                              users_db, revoked_tokens, {})
                 ELSE LET access_token ==
                              create_access_token(
                                  [sub |-> user.email, scopes |-> user.scopes],
                                  AccessTTL, t)
                          new_refresh_token ==
                              create_refresh_token([sub |-> user.email], t)
                      IN  Handled(Token(access_token, new_refresh_token, user.scopes),
                                  users_db, revoked_tokens,
                                  {access_token, new_refresh_token})

\* POST /auth/logout: logs the logout and returns the message; the token that
\* was presented is not added to revoked_tokens.
logout(authorization, t) ==
    LET current_user == get_current_active_user(authorization, t)
    IN  IF current_user.status # 200
        THEN Handled(current_user, users_db, revoked_tokens, {})
        ELSE Handled([status |-> 200, message |-> "Successfully logged out"],
                     users_db, revoked_tokens, {})

\* GET /auth/me
get_current_user_info(authorization, t) ==
    LET current_user == get_current_active_user(authorization, t)
    IN  Handled(current_user, users_db, revoked_tokens, {})

\* GET /auth/profile
get_user_profile(request, t) ==
    Handled(resolve_flexible(request, t), users_db, revoked_tokens, {})

\* DELETE /admin/users/{user_id}
delete_user(user_id, authorization, t) ==
    LET admin_user == require_role("admin", authorization, t)
    IN  IF admin_user.status # 200
        THEN Handled(admin_user, users_db, revoked_tokens, {})
        ELSE IF user_id \notin UserIds
        THEN Handled(HTTPException(404, "User not found", {}),
                     users_db, revoked_tokens, {})
        ELSE Handled([status |-> 200, message |-> "deleted"],
                     [i \in UserIds \ {user_id} |-> users_db[i]],
                     revoked_tokens, {})

-----------------------------------------------------------------------------
(* What clients can send *)

ATTACKER_KEY == "some-other-key"

\* A token signed with a key that is not the server's.
Forged(t) == Jwt("admin@example.com", AllScopes, t + AccessTTL, "access", ATTACKER_KEY)

KeyTexts == {"api_key_123", "api_unknown"}

Credentials ==
    issued \cup {Forged(now), Opaque("not-a-jwt")} \cup {Opaque(k) : k \in KeyTexts}

Headers ==
    {NoHeader, Basic(Opaque("api_key_123"))} \cup {Bearer(c) : c \in Credentials}

\* What a client that logs out, or an administrator, sends: a token it was
\* given, or nothing.
SessionHeaders == {NoHeader} \cup {Bearer(c) : c \in issued}

\* A request as the flexible route sees it.  x_api_key is the X-API-Key
\* header of the request; nothing in 09_authentication.py reads it.
Requests ==
    [authorization : Headers, x_api_key : {Opaque(""), Opaque("api_key_123")}]

-----------------------------------------------------------------------------
(* Actions of the authentication service.  One request is served at a time: *)
(* resp holds the request and its response until the client has taken it.   *)

Idle == [op |-> "idle"]

\* The handler's result h becomes the state: the stores as it left them, the
\* response on its way to the client, the new tokens in the client's hands.
Serve(op, request, h) ==
    /\ Cardinality(issued \cup h.tokens) <= MaxIssued
    /\ resp' = [op |-> op, request |-> request, response |-> h.response]
    /\ users_db' = h.users_db
    /\ revoked_tokens' = h.revoked_tokens
    /\ issued' = issued \cup h.tokens
    /\ UNCHANGED <<now, ticks, api_keys_db, rateVars, restVars>>

Login(email, password) ==
    /\ resp = Idle
    /\ Serve("login", [email |-> email, password |-> password],
             login([email |-> email, password |-> password], now))

Refresh(token) ==
    /\ resp = Idle
    /\ Serve("refresh", token, refresh_token(token, now))

Logout(authorization) ==
    /\ resp = Idle
    /\ Serve("logout", authorization, logout(authorization, now))

GetMe(authorization) ==
    /\ resp = Idle
    /\ Serve("me", authorization, get_current_user_info(authorization, now))

GetProfile(request) ==
    /\ resp = Idle
    /\ Serve("profile", request, get_user_profile(request, now))

DeleteUser(user_id, authorization) ==
    /\ resp = Idle
    /\ Serve("delete_user", [user_id |-> user_id, authorization |-> authorization],
             delete_user(user_id, authorization, now))

\* The client takes the response.
Deliver ==
    /\ resp # Idle
    /\ resp' = Idle
    /\ UNCHANGED <<now, ticks, authVars, rateVars, restVars>>

\* Time passes: a second, or just short of a token lifetime.
AuthDelays == {1, AccessTTL - 1, RefreshTTL - 1}

TickAuth ==
    /\ resp = Idle
    /\ ticks < MaxTicks
    /\ \E d \in AuthDelays : now' = now + d
    /\ ticks' = ticks + 1
    /\ UNCHANGED <<authVars, resp, rateVars, restVars>>

-----------------------------------------------------------------------------
(* Initial state: the module-level stores of 09_authentication.py *)

UserInDB(id, email, password, roles, scopes) ==
    [id |-> id, email |-> email, hashed_password |-> get_password_hash(password),
     is_active |-> TRUE, last_login |-> None, roles |-> roles, scopes |-> scopes]

InitAuth ==
    /\ now = 0
    /\ ticks = 0
    /\ users_db =
         (1 :> UserInDB(1, "admin@example.com", "admin123", {"admin"},
                        {"read", "write", "admin"})) @@
         (2 :> UserInDB(2, "user@example.com", "user123", {"user"}, {"read", "write"}))
    /\ api_keys_db =
         [k \in {"api_key_123"} |->
            [key |-> k, user_id |-> 1, scopes |-> {"read", "write"},
             is_active |-> TRUE, expires_at |-> None]]
    /\ revoked_tokens = {}
    /\ issued = {}
    /\ resp = Idle
    \* the rate limiter is not part of this service
    /\ calls = 0
    /\ period = 0
    /\ rate_limit_storage = <<>>
    /\ burst = <<>>
    /\ pending = <<>>
    /\ requests = <<>>
    /\ running = 0
    /\ task_storage = <<>>
    /\ background = <<>>
    /\ created = 0
    /\ manager = [active_connections |-> <<>>, rooms |-> <<>>, user_connections |-> <<>>]
    /\ endpoints = <<>>
    /\ threads = <<>>

NextAuth ==
    \/ TickAuth
    \/ Deliver
    \/ \E email \in Emails, password \in Passwords : Login(email, password)
    \/ \E token \in Credentials : Refresh(token)
    \/ \E authorization \in SessionHeaders : Logout(authorization)
    \/ \E authorization \in Headers : GetMe(authorization)
    \/ \E request \in Requests : GetProfile(request)
    \/ \E user_id \in 1..MaxUsers, authorization \in SessionHeaders :
           DeleteUser(user_id, authorization)

SpecAuth == InitAuth /\ [][NextAuth]_vars

-----------------------------------------------------------------------------
(* Properties of the authentication service, checked under SpecAuth.        *)
(* The notions of validity below are those of the specification's data      *)
(* model, stated without reference to the handlers.                         *)

TokenKinds == {"access", "refresh"}

SignatureVerifies(token) == token.fmt = "jwt" /\ token.key = SECRET_KEY

\* "a token is valid iff signature verifies, kind matches expected use,
\* now < expiresAt, and it is not present in the revocation set"
ValidToken(token, kind) ==
    /\ SignatureVerifies(token)
    /\ token.typ = kind
    /\ now < token.exp
    /\ token \notin revoked_tokens

\* The request carries a valid bearer access token of a stored user.
ValidBearerToken(authorization) ==
    /\ authorization.present
    /\ authorization.scheme = "bearer"
    /\ ValidToken(authorization.credentials, "access")
    /\ get_user_by_email(authorization.credentials.sub) # None

\* A valid, active, unexpired API key of a stored user.
ValidApiKey(key) ==
    /\ key.fmt = "opaque"
    /\ key.text \in DOMAIN api_keys_db
    /\ api_keys_db[key.text].is_active
    /\ api_keys_db[key.text].expires_at = None
    /\ api_keys_db[key.text].user_id \in UserIds

\* The API keys a request presents: in X-API-Key, or as the bearer credential
\* (where get_api_key_user_dependency looks for one).
PresentedKeys(request) ==
    {request.x_api_key} \cup
    (IF request.authorization.present /\ request.authorization.scheme = "bearer"
     THEN {request.authorization.credentials} ELSE {})

\* C1: refresh rotation. After a successful refresh(R), a later refresh(R)
\* with the same token is rejected. Stated for the call that follows at once:
\* when the response to a successful refresh of R is out, refresh(R) rejects.
C1_RefreshRotation ==
    (resp.op = "refresh" /\ resp.response.status = 200)
        => refresh_token(resp.request, now).response.status # 200

\* C2: logout revokes. After a successful logout with access token T, T is in
\* the revocation set and verifying T, as any kind, is rejected.
C2_LogoutRevokes ==
    (resp.op = "logout" /\ resp.response.status = 200)
        => /\ resp.request.credentials \in revoked_tokens
           /\ \A kind \in TokenKinds :
                  verify_token(resp.request.credentials, kind, now) = None

\* C3: token validity. For every token, expected kind and time, verify_token
\* returns the token's claims if and only if the signature verifies, the kind
\* matches, now < expiresAt and the token is not revoked; otherwise it returns
\* the failure value.
C3_TokenValidIff ==
    \A token \in Credentials, kind \in TokenKinds :
        (verify_token(token, kind, now) # None) <=> ValidToken(token, kind)

\* C4: flexible authentication, either credential suffices. A request that
\* presents a valid API key and no valid bearer access token is resolved to
\* the key owner's identity. The key is taken where the service looks for
\* one, in the bearer credential of the Authorization header.
C4_ApiKeySuffices ==
    (resp.op = "profile" /\ resp.request.authorization.scheme = "bearer") =>
        LET key == resp.request.authorization.credentials
        IN  (ValidApiKey(key) /\ ~ValidBearerToken(resp.request.authorization))
                => /\ resp.response.status = 200
                   /\ resp.response.user = users_db[api_keys_db[key.text].user_id]

\* C5: authentication precedence. A request that carries both a valid bearer
\* access token (of user A) and a valid API key (of user B) is resolved to A,
\* the token's subject.
C5_TokenPrecedence ==
    resp.op = "profile" =>
        \A key \in PresentedKeys(resp.request) :
            (ValidBearerToken(resp.request.authorization) /\ ValidApiKey(key))
                => /\ resp.response.status = 200
                   /\ resp.response.user =
                          get_user_by_email(resp.request.authorization.credentials.sub)

\* C5, witness: a request with user@example.com's token and the admin's API
\* key has been answered with user@example.com's identity.
C5_Witness ==
    /\ resp.op = "profile"
    /\ ValidBearerToken(resp.request.authorization)
    /\ ValidApiKey(resp.request.x_api_key)
    /\ resp.response.status = 200
    /\ resp.response.user.id # api_keys_db[resp.request.x_api_key.text].user_id

\* C6: login non-enumeration. A login that fails because the email is unknown
\* and a login that fails because the password is wrong for a known email get
\* the same response (status, detail, headers), and neither changes a store:
\* whenever a login has been rejected, every attempt that fails for the other
\* reason gets the response just served, and no failing attempt, the one
\* served included, leaves a store changed or hands out a token.
C6_LoginNonEnumeration ==
    (resp.op = "login" /\ resp.response.status # 200) =>
        LET attempts == Emails \X Passwords
            outcome(a) == login([email |-> a[1], password |-> a[2]], now)
            unknown(a) == get_user_by_email(a[1]) = None
            failing == {a \in attempts : authenticate_user(a[1], a[2]) = None}
            served == <<resp.request.email, resp.request.password>>
        IN  /\ served \in failing
            /\ outcome(served).response = resp.response
            /\ \A a \in failing :
                   /\ unknown(a) # unknown(served)
                          => outcome(a).response = resp.response
                   /\ outcome(a).users_db = users_db
                   /\ outcome(a).revoked_tokens = revoked_tokens
                   /\ outcome(a).tokens = {}

\* C6, witness: a login with a known email and a wrong password has been
\* rejected while another email of the pool is unknown.
C6_Witness ==
    /\ resp.op = "login"
    /\ resp.response.status = 401
    /\ get_user_by_email(resp.request.email) # None
    /\ \E e \in Emails : get_user_by_email(e) = None

\* C7: distinct rejection reasons. When token resolution rejects a request for
\* an expired token, the rejection differs from the one a malformed token gets.
C7_DistinctReasons ==
    ( /\ resp.op = "me"
      /\ resp.response.status # 200
      /\ resp.request.present
      /\ SignatureVerifies(resp.request.credentials)
      /\ resp.request.credentials.typ = "access"
      /\ resp.request.credentials.exp < now )
        => \A malformed \in {c \in Credentials : c.fmt # "jwt"} :
               get_current_user(Bearer(malformed), now) # resp.response

-----------------------------------------------------------------------------
(* 11_middleware.py: RateLimitMiddleware.  One request is dispatched at a   *)
(* time, from the pruning of the client's window to the response.           *)

Clients == {"10.0.0.1", "10.0.0.2"}

\* rate_limit_storage is a defaultdict(list): reading a missing key yields
\* (and stores) the empty list.
Window(storage, client_ip) ==
    IF client_ip \in DOMAIN storage THEN storage[client_ip] ELSE <<>>

Store(storage, client_ip, timestamps) ==
    [c \in DOMAIN storage \cup {client_ip} |->
        IF c = client_ip THEN timestamps ELSE storage[c]]

\* "Clean old entries for this IP": keep the timestamps after cutoff_time.
Pruned(storage, client_ip, current_time) ==
    LET cutoff_time == current_time - period
        Recent(timestamp) == timestamp > cutoff_time
    IN  SelectSeq(Window(storage, client_ip), Recent)

\* JSONResponse(status_code=429, ...)
RateLimitExceeded ==
    [status |-> 429, retry_after |-> period,
     headers |-> {<<"Retry-After", period>>}]

\* What call_next returned, with the rate-limit headers added.
WithRateLimitHeaders(response, remaining, current_time) ==
    [status |-> response.status, retry_after |-> 0,
     headers |-> {<<"X-RateLimit-Limit", calls>>,
                  <<"X-RateLimit-Remaining", remaining>>,
                  <<"X-RateLimit-Reset", current_time + period>>}]

\* await call_next(request) raised: the exception leaves dispatch.
Raised == [status |-> 500, retry_after |-> 0, headers |-> {}]

\* Mutant of PassedOn: the remaining budget is written as it was before the
\* request was counted.
PassedOn_remaining_before(counted, client_ip, current_time, downstream) ==
    [storage |-> counted, next |-> TRUE,
     response |->
         IF downstream.raises THEN Raised
         ELSE WithRateLimitHeaders(downstream, calls - Len(counted[client_ip]) + 1,
                                   current_time)]

\* The request is passed on: call_next runs, and what it returns gets the
\* rate-limit headers.
PassedOn(counted, client_ip, current_time, downstream) ==
    [storage |-> counted, next |-> TRUE,
     response |->
         IF downstream.raises THEN Raised
         ELSE WithRateLimitHeaders(downstream, calls - Len(counted[client_ip]),
                                   current_time)]

Rejected(storage) == [storage |-> storage, next |-> FALSE, response |-> RateLimitExceeded]

\* Mutant of dispatch: the limit is compared with > instead of >=.
dispatch_off_by_one(storage, client_ip, current_time, downstream) ==
    LET cleaned == Store(storage, client_ip, Pruned(storage, client_ip, current_time))
        counted == Store(cleaned, client_ip, Append(cleaned[client_ip], current_time))
    IN  IF Len(cleaned[client_ip]) > calls THEN Rejected(cleaned)
        ELSE PassedOn(counted, client_ip, current_time, downstream)

\* Mutant of dispatch: the request is recorded before the limit is checked.
dispatch_count_first(storage, client_ip, current_time, downstream) ==
    LET cleaned == Store(storage, client_ip, Pruned(storage, client_ip, current_time))
        counted == Store(cleaned, client_ip, Append(cleaned[client_ip], current_time))
    IN  IF Len(cleaned[client_ip]) >= calls THEN Rejected(counted)
        ELSE PassedOn(counted, client_ip, current_time, downstream)

\* Mutant of dispatch: old entries are not cleaned.
dispatch_no_cleaning(storage, client_ip, current_time, downstream) ==
    LET cleaned == Store(storage, client_ip, Window(storage, client_ip))
        counted == Store(cleaned, client_ip, Append(cleaned[client_ip], current_time))
    IN  IF Len(cleaned[client_ip]) >= calls THEN Rejected(cleaned)
        ELSE PassedOn(counted, client_ip, current_time, downstream)

\* RateLimitMiddleware.dispatch for a request of client_ip at current_time;
\* downstream is what call_next does with it: a response, or an exception.
\* Yields the storage as dispatch leaves it, its response, and whether the
\* request was passed on (next).
dispatch(storage, client_ip, current_time, downstream) ==
    LET cleaned == Store(storage, client_ip, Pruned(storage, client_ip, current_time))
        counted == Store(cleaned, client_ip, Append(cleaned[client_ip], current_time))
    IN  IF Len(cleaned[client_ip]) >= calls THEN Rejected(cleaned)
        ELSE PassedOn(counted, client_ip, current_time, downstream)

Downstream == {[raises |-> FALSE, status |-> 200], [raises |-> TRUE, status |-> 500]}


-----------------------------------------------------------------------------
(* History kept for the limiter's properties *)

\* What the limiter decided: the request was passed on, or it was answered
\* with the limiter's own response.
Decision(d) ==
    IF d.next THEN [admitted |-> TRUE, status |-> 0, retry_after |-> 0]
    ELSE [admitted |-> FALSE, status |-> d.response.status,
          retry_after |-> d.response.retry_after]

\* The decisions a client got since a request of its found its window empty,
\* for as long as its requests stay within `period` of that request; no more
\* than calls + 1 of them are kept.
NextBurst(current, window, decision) ==
    IF window = <<>> THEN [start |-> now, decisions |-> <<decision>>]
    ELSE IF current = None THEN None
    ELSE IF now >= current.start + period THEN None
    ELSE IF Len(current.decisions) > calls THEN current
    ELSE [current EXCEPT !.decisions = Append(@, decision)]

\* The rejection a client is waiting out: the oldest timestamp that counted
\* against it when it was first rejected, and the retries rejected since.
NextPending(current, window, decision) ==
    IF decision.admitted \/ window = <<>> THEN None
    ELSE IF current = None THEN [oldest |-> Head(window), retries |-> 0]
    ELSE [current EXCEPT !.retries = IF @ < MaxRetries THEN @ + 1 ELSE @]

-----------------------------------------------------------------------------
(* Actions of the rate limiter *)

Dispatch(client_ip, downstream) ==
    /\ resp = Idle
    /\ LET d == dispatch(rate_limit_storage, client_ip, now, downstream)
           window == Pruned(rate_limit_storage, client_ip, now)
       IN  /\ rate_limit_storage' = d.storage
           /\ resp' = [op |-> "dispatch",
                       request |-> [client_ip |-> client_ip, downstream |-> downstream],
                       response |-> d.response,
                       next |-> d.next,
                       pending |-> pending[client_ip]]
           /\ burst' = [burst EXCEPT
                           ![client_ip] = NextBurst(@, window, Decision(d))]
           /\ pending' = [pending EXCEPT
                             ![client_ip] = NextPending(@, window, Decision(d))]
    /\ UNCHANGED <<now, ticks, calls, period, authVars, restVars>>

TickRate ==
    /\ resp = Idle
    /\ now < MaxClock
    /\ now' = now + 1
    /\ ticks' = ticks + 1
    /\ UNCHANGED <<authVars, resp, rateVars, restVars>>

\* RateLimitMiddleware(app, calls, period) with an empty rate_limit_storage.
InitRate ==
    /\ now = 0
    /\ ticks = 0
    /\ calls \in 0..MaxCalls
    /\ period \in 1..MaxPeriod
    /\ rate_limit_storage = <<>>
    /\ burst = [c \in Clients |-> None]
    /\ pending = [c \in Clients |-> None]
    /\ resp = Idle
    /\ requests = <<>>
    /\ running = 0
    /\ task_storage = <<>>
    /\ background = <<>>
    /\ created = 0
    \* the authentication service is not part of this application
    /\ users_db = <<>>
    /\ api_keys_db = <<>>
    /\ revoked_tokens = {}
    /\ issued = {}
    /\ manager = [active_connections |-> <<>>, rooms |-> <<>>, user_connections |-> <<>>]
    /\ endpoints = <<>>
    /\ threads = <<>>

NextRate ==
    \/ TickRate
    \/ Deliver
    \/ \E client_ip \in Clients, downstream \in Downstream :
           Dispatch(client_ip, downstream)

SpecRate == InitRate /\ [][NextRate]_vars


-----------------------------------------------------------------------------
(* Properties of the rate limiter, checked under SpecRate *)

\* C8: the limiter admits exactly N, then rejects. With calls = N and
\* period = P > 0, of the requests a client sends within P seconds of one that
\* found its window empty, the first N are admitted and the (N+1)th is
\* rejected with status 429 and a retry-after value greater than 0.
C8_AdmitsNThenRejects ==
    \A c \in Clients :
        burst[c] # None =>
            \A i \in 1..Len(burst[c].decisions) :
                /\ i <= calls => burst[c].decisions[i].admitted
                /\ i = calls + 1 =>
                       /\ ~burst[c].decisions[i].admitted
                       /\ burst[c].decisions[i].status = 429
                       /\ burst[c].decisions[i].retry_after > 0

\* C8, witness: a client has sent N + 1 >= 3 requests within one period.
C8_Witness ==
    \E c \in Clients :
        /\ burst[c] # None
        /\ calls >= 2
        /\ Len(burst[c].decisions) = calls + 1

\* C9: rejected requests do not consume budget. When the limiter rejects a
\* request of client c, the window stored for c afterwards is the pruned
\* window from before, with no timestamp appended, and the windows of all
\* other clients are unchanged.
C9_RejectionKeepsBudget ==
    [][\A c \in Clients, downstream \in Downstream :
           (Dispatch(c, downstream) /\ resp'.response.status = 429) =>
               /\ Window(rate_limit_storage', c) = Pruned(rate_limit_storage, c, now)
               /\ \A other \in Clients \ {c} :
                      Window(rate_limit_storage', other) =
                          Window(rate_limit_storage, other)]_vars

\* C9, witness: a request was rejected while both clients had timestamps
\* stored.
C9_Witness ==
    /\ resp.op = "dispatch"
    /\ resp.response.status = 429
    /\ \A c \in Clients : Window(rate_limit_storage, c) # <<>>

\* C10: window slide. A client that was rejected is admitted again on its
\* first request later than (timestamp of its oldest counted request +
\* period), however many rejected retries it sent in between.
C10_WindowSlides ==
    ( /\ resp.op = "dispatch"
      /\ resp.pending # None
      /\ now > resp.pending.oldest + period )
        => /\ resp.next
           /\ resp.response.status # 429

\* C10, witness: a client was admitted after a rejection and two rejected
\* retries, once the oldest request that counted against it was a period old.
C10_Witness ==
    /\ resp.op = "dispatch"
    /\ resp.pending # None
    /\ resp.pending.retries >= 2
    /\ now > resp.pending.oldest + period
    /\ resp.next

-----------------------------------------------------------------------------
(* 11_middleware.py: RateLimitMiddleware.dispatch as coroutines of one      *)
(* event loop.  A request in dispatch is about to execute one of            *)
(*   "check"      the comparison with self.calls           (lines 166-176)  *)
(*   "append"     the recording of current_time            (line 179)       *)
(*   "call_next"  the rest after `await call_next(request)` (lines 182-190) *)
(* or is "done".  Entering dispatch executes lines 155-163.                 *)

\* Mutant of Suspends: the event loop may switch coroutines after every
\* statement.
Suspends_at_every_statement(pc) == TRUE

\* A coroutine gives up the event loop at an await and when it returns; the
\* only await of dispatch is `await call_next(request)`.
Suspends(pc) == pc \in {"call_next", "done"}

NoResponse == [status |-> 0, retry_after |-> 0, headers |-> {}]

Request(pc, client_ip, current_time, response) ==
    [pc |-> pc, client_ip |-> client_ip, current_time |-> current_time,
     response |-> response]

\* The event loop runs r: no other coroutine is between two of its awaits.
Scheduled(r) == running \in {0, r}

\* Who holds the event loop once r has reached pc.
Holder(r, pc) == IF Suspends(pc) THEN 0 ELSE r

\* A request reaches dispatch: client_ip and current_time are taken and the
\* client's old entries are cleaned.
Enter(client_ip) ==
    /\ running = 0
    /\ Len(requests) < MaxRequests
    /\ requests' = Append(requests, Request("check", client_ip, now, NoResponse))
    /\ rate_limit_storage' =
           Store(rate_limit_storage, client_ip,
                 Pruned(rate_limit_storage, client_ip, now))
    /\ running' = Holder(Len(requests) + 1, "check")
    /\ UNCHANGED <<now, ticks, authVars, resp, calls, period, burst, pending, taskVars, moreVars>>

\* "Check if rate limit exceeded"
Check(r) ==
    /\ Scheduled(r)
    /\ requests[r].pc = "check"
    /\ LET exceeded == Len(Window(rate_limit_storage, requests[r].client_ip)) >= calls
           pc == IF exceeded THEN "done" ELSE "append"
       IN  /\ requests' = [requests EXCEPT
                  ![r].pc = pc,
                  ![r].response = IF exceeded THEN RateLimitExceeded ELSE @]
           /\ running' = Holder(r, pc)
    /\ UNCHANGED <<now, ticks, authVars, resp, rateVars, taskVars, moreVars>>

\* "Add current request to rate limit storage"
Record(r) ==
    /\ Scheduled(r)
    /\ requests[r].pc = "append"
    /\ rate_limit_storage' =
           Store(rate_limit_storage, requests[r].client_ip,
                 Append(Window(rate_limit_storage, requests[r].client_ip),
                        requests[r].current_time))
    /\ requests' = [requests EXCEPT ![r].pc = "call_next"]
    /\ running' = Holder(r, "call_next")
    /\ UNCHANGED <<now, ticks, authVars, resp, calls, period, burst, pending, taskVars, moreVars>>

\* call_next is over: dispatch resumes, adds the rate-limit headers to the
\* response and returns it, or the exception of call_next leaves dispatch.
Resume(r, downstream) ==
    /\ Scheduled(r)
    /\ requests[r].pc = "call_next"
    /\ requests' = [requests EXCEPT
           ![r].pc = "done",
           ![r].response =
               PassedOn(rate_limit_storage, requests[r].client_ip,
                        requests[r].current_time, downstream).response]
    /\ running' = Holder(r, "done")
    /\ UNCHANGED <<now, ticks, authVars, resp, rateVars, taskVars, moreVars>>

\* Time passes, also between two statements of a coroutine.
TickLoop ==
    /\ now < MaxLoopClock
    /\ now' = now + 1
    /\ ticks' = ticks + 1
    /\ UNCHANGED <<authVars, resp, rateVars, restVars>>

\* RateLimitMiddleware(app, calls, period), no request yet.
InitLoop ==
    /\ now = 0
    /\ ticks = 0
    /\ calls \in 0..MaxCalls
    /\ period \in 1..MaxPeriod
    /\ rate_limit_storage = <<>>
    /\ requests = <<>>
    /\ running = 0
    /\ task_storage = <<>>
    /\ background = <<>>
    /\ created = 0
    /\ resp = Idle
    /\ burst = <<>>
    /\ pending = <<>>
    /\ users_db = <<>>
    /\ api_keys_db = <<>>
    /\ revoked_tokens = {}
    /\ issued = {}
    /\ manager = [active_connections |-> <<>>, rooms |-> <<>>, user_connections |-> <<>>]
    /\ endpoints = <<>>
    /\ threads = <<>>

NextLoop ==
    \/ TickLoop
    \/ \E client_ip \in Clients : Enter(client_ip)
    \/ \E r \in DOMAIN requests : Check(r)
    \/ \E r \in DOMAIN requests : Record(r)
    \/ \E r \in DOMAIN requests, downstream \in Downstream : Resume(r, downstream)

SpecLoop == InitLoop /\ [][NextLoop]_vars

-----------------------------------------------------------------------------
(* Properties of concurrent requests, checked under SpecLoop *)

\* A request is between the cleaning of its client's window and the
\* recording of its own timestamp.
Deciding(r) == requests[r].pc \in {"check", "append"}

\* C11: the rate-limit check is atomic per client. In every interleaving of
\* concurrent requests no two requests of one client are inside their
\* prune-compare-append sequence at once, and no client ever has more than
\* `calls` admitted requests counted within one period: when one slot is
\* left, at most one of the concurrent requests gets it.
C11_AtomicCheck ==
    /\ \A r1, r2 \in DOMAIN requests :
           (r1 # r2 /\ requests[r1].client_ip = requests[r2].client_ip)
               => ~(Deciding(r1) /\ Deciding(r2))
    /\ \A c \in Clients : Len(Pruned(rate_limit_storage, c, now)) <= calls

\* C11, witness: while an admitted request that took the last slot is still
\* awaiting call_next, a second request of the same client, arrived in the
\* same instant, has been rejected.
C11_Witness ==
    \E r1, r2 \in DOMAIN requests :
        /\ r1 # r2
        /\ calls >= 1
        /\ requests[r1].client_ip = requests[r2].client_ip
        /\ requests[r1].current_time = requests[r2].current_time
        /\ requests[r1].pc = "call_next"
        /\ requests[r2].pc = "done"
        /\ requests[r2].response.status = 429
        /\ Len(Window(rate_limit_storage, requests[r1].client_ip)) = calls

-----------------------------------------------------------------------------
(* 11_middleware.py: the middleware stack around the routes *)

\* The app.add_middleware calls of the file, in the order they are made.
AddedOrder ==
    <<"CORSMiddleware", "GZipMiddleware", "TrustedHostMiddleware",
      "SessionMiddleware", "TimingMiddleware", "RateLimitMiddleware",
      "SecurityHeadersMiddleware", "LoggingMiddleware", "AuthMiddleware">>

\* Starlette's add_middleware puts the new middleware in front of the ones
\* added before it (user_middleware.insert(0, ...)).
add_middleware(user_middleware, middleware) == <<middleware>> \o user_middleware

RECURSIVE build_middleware_stack(_)
\* The stack after the first n calls, outermost middleware first.
build_middleware_stack(n) ==
    IF n = 0 THEN <<>>
    ELSE add_middleware(build_middleware_stack(n - 1), AddedOrder[n])

user_middleware == build_middleware_stack(Len(AddedOrder))

\* What one layer hands to the layer around it: a response, or an exception.
\* `storage` is rate_limit_storage as the layer left it; `trace` lists, in
\* order, the layers entered and left for this request.
JSONResponse(storage, status_code, content, headers) ==
    [raised |-> FALSE, status |-> status_code, headers |-> headers,
     body |-> content, exc |-> "", storage |-> storage, trace |-> <<>>]

Raise(storage, exc) ==
    [raised |-> TRUE, status |-> 0, headers |-> {},
     body |-> {}, exc |-> exc, storage |-> storage, trace |-> <<>>]

Event(layer, event) == [layer |-> layer, event |-> event]

\* Authorization headers a client may send.
NoAuthorization == [prefix |-> "", token |-> ""]

Authorizations ==
    {NoAuthorization,
     [prefix |-> "Basic ", token |-> "dXNlcjpwdw=="],
     [prefix |-> "Bearer ", token |-> "valid_token_123"],
     [prefix |-> "Bearer ", token |-> "expired_token"]}

\* AuthMiddleware._validate_token: token.startswith("valid_")
validate_token(token) == token \in {"valid_token_123", "valid_admin_token"}

PROTECTED_PATHS == {"/protected", "/admin"}

\* path.startswith(protected) for the paths of the routes
StartsWith(path, prefix) ==
    \/ path = prefix
    \/ prefix = "/protected" /\ path = "/protected/data"
    \/ prefix = "/admin" /\ path = "/admin/dashboard"

\* The routes: what the router does with a request that reached it.
route(request, storage) ==
    CASE request.path = "/" ->
             JSONResponse(storage, 200, {"Hello World!"}, {})
      [] request.path = "/protected/data" ->
             JSONResponse(storage, 200, {"Protected data accessed successfully"}, {})
      [] request.path = "/session-demo" ->
             JSONResponse(storage, 200, {"Session demo"}, {})
      [] request.path = "/error-test" ->
             Raise(storage, "This is a test error")
      [] OTHER ->
             JSONResponse(storage, 404, {"Not Found"}, {})

RECURSIVE call(_, _, _)
\* call_next of the layer at `depth`: the next layer in, or the router.
call_next(depth, request, storage) == call(depth + 1, request, storage)

\* A middleware that hands the request on and the response back.
PassThrough(depth, request, storage) == call_next(depth, request, storage)

\* TrustedHostMiddleware(allowed_hosts=[...]): 400 for any other Host.
TrustedHostMiddleware(depth, request, storage) ==
    IF request.host \in {"127.0.0.1", "localhost", "api.example.com"}
    THEN call_next(depth, request, storage)
    ELSE JSONResponse(storage, 400, {"Invalid host header"}, {})

TimingMiddleware(depth, request, storage) ==
    LET response == call_next(depth, request, storage)
    IN  IF response.raised THEN response
        ELSE [response EXCEPT !.headers = @ \cup {"X-Process-Time", "X-Request-ID"}]

\* RateLimitMiddleware.dispatch with the rest of the stack as call_next.
RateLimitMiddleware(depth, request, storage) ==
    LET client_ip == request.client_ip
        limit == dispatch(storage, client_ip, now, [raises |-> FALSE, status |-> 200])
        response == call_next(depth, request, limit.storage)
        d == dispatch(storage, client_ip, now,
                      [raises |-> response.raised, status |-> response.status])
    IN  IF ~limit.next
        THEN JSONResponse(limit.storage, limit.response.status,
                          {"Rate limit exceeded"},
                          {h[1] : h \in limit.response.headers})
        ELSE IF response.raised THEN response
        ELSE [response EXCEPT !.headers = @ \cup {h[1] : h \in d.response.headers}]

SecurityHeaders ==
    {"X-Content-Type-Options", "X-Frame-Options", "X-XSS-Protection",
     "Strict-Transport-Security", "Referrer-Policy", "Content-Security-Policy"}

SecurityHeadersMiddleware(depth, request, storage) ==
    LET response == call_next(depth, request, storage)
    IN  IF response.raised THEN response
        ELSE [response EXCEPT !.headers = @ \cup SecurityHeaders]

\* The body of the 500 response of LoggingMiddleware.
InternalServerError ==
    {"Internal Server Error", "An error occurred while processing your request"}

\* json.loads(body.decode()) before the try block: a JSONDecodeError is
\* caught there, the UnicodeDecodeError of body.decode() is not.
LogsBody(request) ==
    request.method \in {"POST", "PUT", "PATCH"} /\ request.body # ""

\* Mutant of LoggingMiddleware: after an exception the request is processed
\* a second time.
LoggingMiddleware_retry(depth, request, storage) ==
    IF LogsBody(request) /\ request.body = "not-utf8"
    THEN Raise(storage, "'utf-8' codec can't decode byte 0xff")
    ELSE LET response == call_next(depth, request, storage)
             again == call_next(depth, request, response.storage)
         IN  IF response.raised
             THEN [again EXCEPT !.trace = response.trace \o @]
             ELSE response

LoggingMiddleware(depth, request, storage) ==
    IF LogsBody(request) /\ request.body = "not-utf8"
    THEN Raise(storage, "'utf-8' codec can't decode byte 0xff")
    ELSE LET response == call_next(depth, request, storage)
         IN  IF response.raised
             THEN [JSONResponse(response.storage, 500, InternalServerError, {})
                       EXCEPT !.trace = response.trace]
             ELSE response

AuthMiddleware(depth, request, storage) ==
    LET path == request.path
        requires_auth == \E protected \in PROTECTED_PATHS : StartsWith(path, protected)
        auth_header == request.authorization
    IN  IF requires_auth /\ auth_header.prefix # "Bearer "
        THEN JSONResponse(storage, 401, {"Authentication required"}, {})
        ELSE IF requires_auth /\ ~validate_token(auth_header.token)
        THEN JSONResponse(storage, 401, {"Invalid token"}, {})
        ELSE call_next(depth, request, storage)

\* The layer at `depth` of the stack, the router below the last middleware.
call(depth, request, storage) ==
    LET layer == IF depth <= Len(user_middleware) THEN user_middleware[depth]
                 ELSE "router"
        r == CASE layer = "AuthMiddleware" -> AuthMiddleware(depth, request, storage)
               [] layer = "LoggingMiddleware" -> LoggingMiddleware(depth, request, storage)
               [] layer = "SecurityHeadersMiddleware" ->
                      SecurityHeadersMiddleware(depth, request, storage)
               [] layer = "RateLimitMiddleware" ->
                      RateLimitMiddleware(depth, request, storage)
               [] layer = "TimingMiddleware" -> TimingMiddleware(depth, request, storage)
               [] layer = "TrustedHostMiddleware" ->
                      TrustedHostMiddleware(depth, request, storage)
               [] layer = "router" -> route(request, storage)
               [] OTHER -> PassThrough(depth, request, storage)
    IN  [r EXCEPT !.trace = <<Event(layer, "enter")>> \o @ \o
                            <<Event(layer, IF r.raised THEN "raise" ELSE "exit")>>]

\* Starlette's ServerErrorMiddleware around the whole stack: an exception
\* that leaves the outermost middleware is answered with a plain 500 and
\* raised again to the server.
ServerErrorMiddleware(request, storage) ==
    LET r == call(1, request, storage)
    IN  IF r.raised
        THEN [r EXCEPT !.status = 500, !.body = {"Internal Server Error"}]
        ELSE r

HttpRequests ==
    {[method |-> route_[1], path |-> route_[2], host |-> host,
      client_ip |-> client_ip, authorization |-> authorization, body |-> body] :
        route_ \in {<<"GET", "/">>, <<"GET", "/protected/data">>,
                    <<"GET", "/error-test">>, <<"GET", "/missing">>},
        host \in {"localhost", "evil.example.org"},
        client_ip \in Clients,
        authorization \in Authorizations,
        body \in {""}}
    \cup
    {[method |-> "POST", path |-> "/session-demo", host |-> "localhost",
      client_ip |-> client_ip, authorization |-> NoAuthorization, body |-> body] :
        client_ip \in Clients,
        body \in {"", "{}", "plain text", "not-utf8"}}

\* One request goes through the application.
Handle(request) ==
    /\ resp = Idle
    /\ LET r == ServerErrorMiddleware(request, rate_limit_storage)
       IN  /\ rate_limit_storage' = r.storage
           /\ resp' = [op |-> "request", request |-> request,
                       response |-> [status |-> r.status, headers |-> r.headers,
                                     body |-> r.body],
                       raised |-> r.raised, exc |-> r.exc, trace |-> r.trace]
    /\ UNCHANGED <<now, ticks, calls, period, burst, pending, authVars, restVars>>

\* RateLimitMiddleware(app, calls, period) on top of the running stack.
InitApp ==
    /\ now = 0
    /\ ticks = 0
    /\ calls \in 1..MaxCalls
    /\ period \in 1..MaxPeriod
    /\ rate_limit_storage = <<>>
    /\ resp = Idle
    /\ burst = <<>>
    /\ pending = <<>>
    /\ requests = <<>>
    /\ running = 0
    /\ task_storage = <<>>
    /\ background = <<>>
    /\ created = 0
    /\ users_db = <<>>
    /\ api_keys_db = <<>>
    /\ revoked_tokens = {}
    /\ issued = {}
    /\ manager = [active_connections |-> <<>>, rooms |-> <<>>, user_connections |-> <<>>]
    /\ endpoints = <<>>
    /\ threads = <<>>

NextApp ==
    \/ TickLoop
    \/ Deliver
    \/ \E request \in HttpRequests : Handle(request)

SpecApp == InitApp /\ [][NextApp]_vars

-----------------------------------------------------------------------------
(* Properties of the middleware stack, checked under SpecApp *)

\* How often `layer` was entered for the request.
Entries(trace, layer) ==
    LET IsEntry(e) == e = Event(layer, "enter")
    IN  Len(SelectSeq(trace, IsEntry))

\* The middlewares in the order they were entered / left.
EnteredOrder(trace) ==
    LET IsEntry(e) == e.event = "enter" /\ e.layer # "router"
        entries == SelectSeq(trace, IsEntry)
    IN  [i \in 1..Len(entries) |-> entries[i].layer]

LeftOrder(trace) ==
    LET IsExit(e) == e.event # "enter" /\ e.layer # "router"
        exits == SelectSeq(trace, IsExit)
    IN  [i \in 1..Len(exits) |-> exits[i].layer]

Reverse(seq) == [i \in 1..Len(seq) |-> seq[Len(seq) + 1 - i]]

\* C12: rate limiting precedes authentication. Every request enters the
\* rate limiter, and does so before the authentication middleware; it is
\* either rejected with 429 or counted in its client's window; and a request
\* rejected with 429 reached neither the authentication middleware nor a
\* route.
C12_RateLimitBeforeAuth ==
    resp.op = "request" =>
        /\ Entries(resp.trace, "RateLimitMiddleware") = 1
        /\ \A i, j \in 1..Len(resp.trace) :
               ( /\ resp.trace[i] = Event("RateLimitMiddleware", "enter")
                 /\ resp.trace[j] = Event("AuthMiddleware", "enter") ) => i < j
        /\ \/ resp.response.status = 429
           \/ \E i \in 1..Len(Window(rate_limit_storage, resp.request.client_ip)) :
                  Window(rate_limit_storage, resp.request.client_ip)[i] = now
        /\ resp.response.status = 429 =>
               /\ Entries(resp.trace, "AuthMiddleware") = 0
               /\ Entries(resp.trace, "router") = 0

\* C13: call-next-at-most-once. For every request, every middleware of the
\* stack and the router are entered at most once: a middleware that was
\* entered either passed the request on once or answered itself, and the
\* route handler ran 0 or 1 times.
C13_CallNextOnce ==
    resp.op = "request" =>
        /\ \A depth \in 1..Len(user_middleware) :
               Entries(resp.trace, user_middleware[depth]) <= 1
        /\ Entries(resp.trace, "router") <= 1
        /\ \A depth \in 2..Len(user_middleware) :
               Entries(resp.trace, user_middleware[depth])
                   <= Entries(resp.trace, user_middleware[depth - 1])

\* C13, witness: the route handler raised, LoggingMiddleware answered with
\* its own 500 after having called the rest of the stack once.
C13_Witness ==
    /\ resp.op = "request"
    /\ resp.response.status = 500
    /\ ~resp.raised
    /\ Event("router", "raise") \in {resp.trace[i] : i \in 1..Len(resp.trace)}
    /\ Entries(resp.trace, "router") = 1

\* C14: pipeline ordering. A request that reaches the routes has passed the
\* middlewares in the order in which they were added to the application, and
\* its response passes them in the reverse order.
C14_PipelineOrder ==
    (resp.op = "request" /\ Entries(resp.trace, "router") = 1) =>
        /\ EnteredOrder(resp.trace) = AddedOrder
        /\ LeftOrder(resp.trace) = Reverse(AddedOrder)

\* C15: security headers on all responses. Every response that leaves the
\* application carries X-Content-Type-Options and X-Frame-Options.
C15_SecurityHeadersOnAll ==
    resp.op = "request" =>
        {"X-Content-Type-Options", "X-Frame-Options"} \subseteq resp.response.headers

\* C16: unexpected failures become a generic 500. When a route or a
\* middleware raised while a request was processed, the client gets a 500
\* response without the text of the exception, and the exception does not
\* leave the application's middleware stack.
C16_GenericError ==
    ( /\ resp.op = "request"
      /\ \E i \in 1..Len(resp.trace) : resp.trace[i].event = "raise" ) =>
        /\ resp.response.status = 500
        /\ resp.exc \notin resp.response.body
        /\ ~resp.raised

-----------------------------------------------------------------------------
(* 12_background_tasks.py: the task registry and the background work.       *)
(* progress is kept in percent: 0.1 is 10, 1.0 is 100.                      *)

\* An Optional value that is set.
Some(value) == [value |-> value]

\* TaskStatus(task_id=..., metadata=...), the other fields at their defaults.
TaskStatus(task_id, metadata, t) ==
    [task_id |-> task_id, status |-> "pending", created_at |-> t,
     started_at |-> None, completed_at |-> None, progress |-> 0,
     result |-> None, error |-> None, metadata |-> metadata]

\* The keyword arguments of update_task_status.
Keyword(key, value) == (key :> value)

update_task_status(storage, task_id, status, kwargs, t) ==
    IF task_id \notin DOMAIN storage THEN storage
    ELSE LET task == storage[task_id]
         IN  [storage EXCEPT ![task_id] =
                 [task EXCEPT
                     !.status = status,
                     !.started_at =
                         IF status = "running" /\ task.started_at = None
                         THEN Some(t) ELSE @,
                     !.completed_at =
                         IF ~(status = "running" /\ task.started_at = None)
                            /\ status \in {"completed", "failed"}
                         THEN Some(t) ELSE @,
                     !.progress =
                         IF "progress" \in DOMAIN kwargs THEN kwargs["progress"] ELSE @,
                     !.result =
                         IF "result" \in DOMAIN kwargs THEN kwargs["result"] ELSE @,
                     !.error =
                         IF "error" \in DOMAIN kwargs THEN kwargs["error"] ELSE @]]

\* `if error:` is false for None and for the empty string.
Truthy(error) == error # None /\ error # Some("")

\* Mutant of log_task_completion: an error is logged but the task is marked
\* completed.
log_task_completion_swallowed(storage, task_id, result, error, t) ==
    update_task_status(storage, task_id, "completed", Keyword("result", result), t)

log_task_completion(storage, task_id, result, error, t) ==
    IF Truthy(error)
    THEN update_task_status(storage, task_id, "failed", Keyword("error", error), t)
    ELSE update_task_status(storage, task_id, "completed", Keyword("result", result), t)

\* The calls a piece of background work makes on the registry.
Update(status, kwargs) ==
    [fn |-> "update_task_status", status |-> status, kwargs |-> kwargs,
     result |-> None, error |-> None]

Running(progress) == Update("running", Keyword("progress", progress))

Completion(result, error) ==
    [fn |-> "log_task_completion", status |-> "", kwargs |-> <<>>,
     result |-> result, error |-> error]

\* Background work is written as the list of its segments: what it does to
\* the registry between two points where it waits (await asyncio.sleep, file
\* I/O) or until it returns.  An exception ends the try block; the except
\* clause then runs in the same segment.

\* Mutant of send_email_task: the last progress update comes after the
\* completion.
send_email_task_late_progress(email_request) ==
    << <<Running(10)>>, <<Running(30)>>, <<Running(60)>>,
       <<Completion([message |-> "Email sent successfully", to |-> email_request.to],
                    None)>>,
       <<Running(90)>> >>

send_email_task(email_request) ==
    << <<Running(10)>>, <<Running(30)>>, <<Running(60)>>,
       <<Running(90),
         Completion([message |-> "Email sent successfully", to |-> email_request.to],
                    None)>> >>

send_notification_email(user_email) ==
    << <<Update("completed", Keyword("result", [email |-> user_email]))>> >>

process_file_task(file_request) ==
    IF ~file_request.exists
    THEN << <<Running(10), Completion(None, Some("File not found"))>> >>
    ELSE LET result == [operation |-> file_request.operation]
         IN  CASE file_request.operation = "resize" ->
                      << <<Running(10), Running(20)>>, <<Running(30)>>, <<Running(50)>>,
                         <<Running(70)>>, <<Running(90), Completion(result, None)>> >>
               [] file_request.operation = "convert" ->
                      << <<Running(10), Running(20)>>, <<Running(40)>>, <<Running(60)>>,
                         <<Running(80)>>, <<Running(100), Completion(result, None)>> >>
               [] OTHER ->
                      << <<Running(10), Running(20),
                           Completion(None, Some("Unknown operation"))>> >>

generate_report_task(report_request) ==
    << <<Running(10)>>, <<Running(30)>>, <<Running(60)>>, <<Running(90)>>,
       <<IF report_request.writable
         THEN Completion([report_type |-> report_request.report_type], None)
         ELSE Completion(None, Some("Permission denied"))>> >>

database_cleanup_task ==
    << <<Running(10)>>, <<Running(18)>>, <<Running(36)>>, <<Running(54)>>,
       <<Running(72)>>,
       <<Running(90), Completion([records_cleaned |-> 1250], None)>> >>

\* One call of a segment, applied to the registry.
Apply(storage, task_id, c, t) ==
    IF c.fn = "update_task_status"
    THEN update_task_status(storage, task_id, c.status, c.kwargs, t)
    ELSE log_task_completion(storage, task_id, c.result, c.error, t)

RECURSIVE Run(_, _, _, _)
\* The calls of one segment, in order.
Run(storage, task_id, segment, t) ==
    IF Len(segment) = 0 THEN storage
    ELSE Run(Apply(storage, task_id, Head(segment), t), task_id, Tail(segment), t)

Put(mapping, key, value) ==
    [k \in DOMAIN mapping \cup {key} |-> IF k = key THEN value ELSE mapping[k]]

Remove(mapping, key) == [k \in DOMAIN mapping \ {key} |-> mapping[k]]

\* Mutant of submitted: the endpoint runs the first segment of the work
\* before it returns.
submitted_and_started(storage, task_id, metadata, work, t) ==
    Run(Put(storage, task_id, TaskStatus(task_id, metadata, t)), task_id, Head(work), t)

\* The registry as a submit endpoint leaves it:
\* task_storage[task_id] = TaskStatus(task_id=task_id, metadata=...);
\* background_tasks.add_task(...) only queues the work.
submitted(storage, task_id, metadata, work, t) ==
    Put(storage, task_id, TaskStatus(task_id, metadata, t))

get_task_status(storage, task_id) ==
    IF task_id \notin DOMAIN storage
    THEN [status_code |-> 404, body |-> [detail |-> "Task not found"]]
    ELSE LET task == storage[task_id]
         IN  [status_code |-> 200,
              body |-> [task_id |-> task.task_id, status |-> task.status,
                        progress |-> task.progress, created_at |-> task.created_at,
                        started_at |-> task.started_at,
                        completed_at |-> task.completed_at,
                        result |-> task.result, error |-> task.error,
                        metadata |-> task.metadata]]

\* Mutant of cancel_task: a running task is removed like any other.
cancel_task_even_running(storage, task_id) ==
    IF task_id \notin DOMAIN storage
    THEN [storage |-> storage,
          response |-> [status_code |-> 404, body |-> [detail |-> "Task not found"]]]
    ELSE [storage |-> Remove(storage, task_id),
          response |-> [status_code |-> 200, body |-> [message |-> "Task removed"]]]

cancel_task(storage, task_id) ==
    IF task_id \notin DOMAIN storage
    THEN [storage |-> storage,
          response |-> [status_code |-> 404, body |-> [detail |-> "Task not found"]]]
    ELSE IF storage[task_id].status = "running"
    THEN [storage |-> storage,
          response |-> [status_code |-> 409,
                        body |-> [message |-> "Cannot cancel running task"]]]
    ELSE [storage |-> Remove(storage, task_id),
          response |-> [status_code |-> 200, body |-> [message |-> "Task removed"]]]

EmailRequests == {[to |-> "user@example.com"]}

FileProcessRequests ==
    {[exists |-> FALSE, operation |-> "convert"],
     [exists |-> TRUE, operation |-> "convert"],
     [exists |-> TRUE, operation |-> "rotate"]}

ReportRequests == {[report_type |-> "sales", writable |-> w] : w \in BOOLEAN}

-----------------------------------------------------------------------------
(* Actions of the task registry *)

\* The common body of the submit endpoints: a fresh task id, the record, the
\* queued work, the response with the id.
Accept(op, request, metadata, work) ==
    /\ created < MaxTasks
    /\ LET task_id == created + 1
       IN  /\ created' = task_id
           /\ task_storage' = submitted(task_storage, task_id, metadata, work, now)
           /\ background' = Put(background, task_id, work)
           /\ resp' = [op |-> op, request |-> request,
                       response |-> [status_code |-> 200,
                                     body |-> [task_id |-> task_id]]]
    /\ UNCHANGED <<now, ticks, authVars, rateVars, loopVars, moreVars>>

SendEmail(email_request) ==
    /\ resp = Idle
    /\ Accept("send_email", email_request, [type |-> "email"],
              send_email_task(email_request))

SendNotification(user_email) ==
    /\ resp = Idle
    /\ Accept("send_notification", user_email, [type |-> "notification"],
              send_notification_email(user_email))

ProcessFile(file_request) ==
    /\ resp = Idle
    /\ Accept("process_file", file_request, [type |-> "file_processing"],
              process_file_task(file_request))

GenerateReport(report_request) ==
    /\ resp = Idle
    /\ Accept("generate_report", report_request, [type |-> "report_generation"],
              generate_report_task(report_request))

CleanupDatabase ==
    /\ resp = Idle
    /\ Accept("cleanup_database", None, [type |-> "database_cleanup"],
              database_cleanup_task)

GetTaskStatus(task_id) ==
    /\ resp = Idle
    /\ resp' = [op |-> "get_task_status", request |-> task_id,
                response |-> get_task_status(task_storage, task_id)]
    /\ UNCHANGED <<now, ticks, authVars, rateVars, restVars>>

CancelTask(task_id) ==
    /\ resp = Idle
    /\ LET c == cancel_task(task_storage, task_id)
       IN  /\ task_storage' = c.storage
           /\ resp' = [op |-> "cancel_task", request |-> task_id,
                       response |-> c.response]
    /\ UNCHANGED <<now, ticks, authVars, rateVars, loopVars, moreVars, background, created>>

\* The background work of task_id runs up to its next wait, or to its end.
Work(task_id) ==
    /\ resp = Idle
    /\ task_id \in DOMAIN background
    /\ task_storage' = Run(task_storage, task_id, Head(background[task_id]), now)
    /\ background' =
           IF Len(background[task_id]) = 1 THEN Remove(background, task_id)
           ELSE Put(background, task_id, Tail(background[task_id]))
    /\ UNCHANGED <<now, ticks, authVars, rateVars, loopVars, moreVars, resp, created>>

\* An empty registry, no work queued.  The registry reads the clock only to
\* stamp the records, so the clock is left where it is.
InitTasks ==
    /\ now = 0
    /\ ticks = 0
    /\ task_storage = <<>>
    /\ background = <<>>
    /\ created = 0
    /\ resp = Idle
    /\ calls = 0
    /\ period = 0
    /\ rate_limit_storage = <<>>
    /\ burst = <<>>
    /\ pending = <<>>
    /\ requests = <<>>
    /\ running = 0
    /\ users_db = <<>>
    /\ api_keys_db = <<>>
    /\ revoked_tokens = {}
    /\ issued = {}
    /\ manager = [active_connections |-> <<>>, rooms |-> <<>>, user_connections |-> <<>>]
    /\ endpoints = <<>>
    /\ threads = <<>>

NextTasks ==
    \/ Deliver
    \/ \E email_request \in EmailRequests : SendEmail(email_request)
    \/ SendNotification("user@example.com")
    \/ \E file_request \in FileProcessRequests : ProcessFile(file_request)
    \/ \E report_request \in ReportRequests : GenerateReport(report_request)
    \/ CleanupDatabase
    \/ \E task_id \in 1..MaxTasks : GetTaskStatus(task_id)
    \/ \E task_id \in 1..MaxTasks : CancelTask(task_id)
    \/ \E task_id \in 1..MaxTasks : Work(task_id)

SpecTasks == InitTasks /\ [][NextTasks]_vars

-----------------------------------------------------------------------------
(* Properties of the task registry, checked under SpecTasks *)

Terminal == {"completed", "failed"}

\* The registry after the first k calls of a segment.
Midway(storage, task_id, segment, k, t) == Run(storage, task_id, SubSeq(segment, 1, k), t)

\* The status changes the calls of a segment make to the task, one by one.
StatusChanges(storage, task_id, segment, t) ==
    {<<Midway(storage, task_id, segment, k - 1, t)[task_id].status,
       Midway(storage, task_id, segment, k, t)[task_id].status>> :
         k \in {j \in 1..Len(segment) :
                  Midway(storage, task_id, segment, j - 1, t)[task_id].status
                    # Midway(storage, task_id, segment, j, t)[task_id].status}}

\* C17: task state machine. Whatever is submitted and however the work is
\* scheduled, every status change that a piece of background work makes to
\* its task is pending -> running, running -> completed or running -> failed.
C17_TaskStateMachine ==
    [][\A task_id \in DOMAIN background \cap DOMAIN task_storage :
           Work(task_id) =>
               StatusChanges(task_storage, task_id, Head(background[task_id]), now)
                   \subseteq {<<"pending", "running">>, <<"running", "completed">>,
                              <<"running", "failed">>}]_vars

\* C18: terminal states are final. Once a task is completed or failed, no
\* step changes any field of its record; the record stays as it is or is
\* deleted. This holds from one state to the next and for every call inside
\* a segment of background work.
C18_TerminalFinal ==
    [][/\ \A task_id \in DOMAIN task_storage :
              task_storage[task_id].status \in Terminal =>
                  \/ task_id \notin DOMAIN task_storage'
                  \/ task_storage'[task_id] = task_storage[task_id]
       /\ \A task_id \in DOMAIN background \cap DOMAIN task_storage :
              Work(task_id) =>
                  \A k \in 1..Len(Head(background[task_id])) :
                      LET mid == Midway(task_storage, task_id,
                                        Head(background[task_id]), k, now)
                      IN  mid[task_id].status \in Terminal => task_storage' = mid]_vars

\* C18, witness: a finished task has been read while the work of another
\* task, submitted before it finished, went on.
C18_Witness ==
    /\ resp.op = "get_task_status"
    /\ resp.request \in DOMAIN task_storage
    /\ task_storage[resp.request].status \in Terminal
    /\ resp.response.body.status \in Terminal
    /\ \E other \in DOMAIN task_storage : task_storage[other].status = "running"

C20_CompletedFull ==
    \A task_id \in DOMAIN task_storage :
        task_storage[task_id].status = "completed" =>
            /\ task_storage[task_id].progress = 100
            /\ task_storage[task_id].result # None

\* The work raised in this segment: its except clause reports an error.
Raises(segment) ==
    \E k \in 1..Len(segment) :
        segment[k].fn = "log_task_completion" /\ segment[k].error # None

\* C21: task failure isolation. When the work of a task raises, the task
\* ends in status failed with an error message that is not None, no
\* response to any request is touched, and the records of all other tasks
\* are left as they were.
C21_FailureIsolation ==
    [][\A task_id \in DOMAIN background \cap DOMAIN task_storage :
           (Work(task_id) /\ Raises(Head(background[task_id]))) =>
               /\ task_storage'[task_id].status = "failed"
               /\ task_storage'[task_id].error # None
               /\ Len(background[task_id]) = 1
               /\ resp' = resp
               /\ \A other \in DOMAIN task_storage \ {task_id} :
                      /\ other \in DOMAIN task_storage'
                      /\ task_storage'[other] = task_storage[other]]_vars

\* C21, witness: a task has failed with an error message while another task
\* is running.
C21_Witness ==
    \E task_id, other \in DOMAIN task_storage :
        /\ task_storage[task_id].status = "failed"
        /\ task_storage[task_id].error # None
        /\ task_storage[other].status = "running"

\* C22: delete of a running task is a conflict. cancel_task on a running
\* task answers 409 and leaves the registry unchanged; cancel_task on an
\* unknown id answers 404 and leaves the registry unchanged.
C22_DeleteRunningConflict ==
    [][\A task_id \in 1..MaxTasks :
           CancelTask(task_id) =>
               /\ task_id \notin DOMAIN task_storage =>
                      /\ resp'.response.status_code = 404
                      /\ task_storage' = task_storage
               /\ (task_id \in DOMAIN task_storage
                     /\ task_storage[task_id].status = "running") =>
                      /\ resp'.response.status_code = 409
                      /\ task_storage' = task_storage]_vars

\* C22, witness: the deletion of a running task was answered 409 and the
\* task is still running.
C22_Witness ==
    /\ resp.op = "cancel_task"
    /\ resp.response.status_code = 409
    /\ resp.request \in DOMAIN task_storage
    /\ task_storage[resp.request].status = "running"

\* C23: delete applies only to finished tasks. cancel_task removes a record
\* only if its status is completed or failed; a pending task is never
\* removed.
C23_DeleteOnlyFinished ==
    [][\A task_id \in DOMAIN task_storage :
           (CancelTask(task_id) /\ task_id \notin DOMAIN task_storage') =>
               task_storage[task_id].status \in Terminal]_vars

-----------------------------------------------------------------------------
(* Further properties of concurrent requests, checked under SpecLoop *)

\* The X-RateLimit-Remaining values written on a response.
Remaining(response) ==
    {h[2] : h \in {g \in response.headers : g[1] = "X-RateLimit-Remaining"}}

\* C25: rate window size bound. In every interleaving of requests, no
\* client has more than `calls` timestamps stored, and the
\* X-RateLimit-Remaining written on the response of an admitted request is
\* between 0 and calls - 1.
C25_WindowBound ==
    /\ \A c \in Clients : Len(Window(rate_limit_storage, c)) <= calls
    /\ \A r \in DOMAIN requests :
           \A remaining \in Remaining(requests[r].response) :
               remaining \in 0..(calls - 1)

\* C25, witness: a request got its response while a later request of the
\* same client, admitted while the first was awaiting call_next, had filled
\* the window: the first response says 0 remaining.
C25_Witness ==
    \E r1, r2 \in DOMAIN requests :
        /\ r1 < r2
        /\ calls >= 2
        /\ requests[r1].client_ip = requests[r2].client_ip
        /\ requests[r1].pc = "done"
        /\ requests[r2].pc = "call_next"
        /\ Remaining(requests[r1].response) = {0}
        /\ Len(Window(rate_limit_storage, requests[r1].client_ip)) = calls

-----------------------------------------------------------------------------
(* Registration, the OAuth2 token endpoint and the guarded endpoints of     *)
(* 09_authentication.py                                                     *)

\* Mutant of require_scope: any scope at all is enough.
require_scope_any(required_scope, authorization, t) ==
    LET current_user == get_current_active_user(authorization, t)
    IN  IF current_user.status # 200 THEN current_user
        ELSE IF current_user.user.scopes = {}
             THEN HTTPException(403, "Operation requires scope", {})
             ELSE current_user

\* require_scope(required_scope) as a dependency: check_scope, run after
\* get_current_active_user.  The scopes looked at are those of the stored
\* user.
require_scope(required_scope, authorization, t) ==
    LET current_user == get_current_active_user(authorization, t)
    IN  IF current_user.status # 200 THEN current_user
        ELSE IF required_scope \notin current_user.user.scopes
             THEN HTTPException(403, "Operation requires scope", {})
             ELSE current_user

MaxId(S) == CHOOSE m \in S : \A k \in S : k <= m

\* An exception that is no HTTPException leaves the application as a 500.
ValueError == [status |-> 500, detail |-> "Internal Server Error"]

\* POST /auth/register.  max() of an empty users_db raises ValueError.
register_user(user, t) ==
    IF get_user_by_email(user.email) # None
    THEN Handled(HTTPException(400, "User with this email already exists", {}),
                 users_db, revoked_tokens, {})
    ELSE IF UserIds = {}
    THEN Handled(ValueError, users_db, revoked_tokens, {})
    ELSE LET new_user_id == MaxId(UserIds) + 1
             new_user == UserInDB(new_user_id, user.email, user.password, {"user"},
                                  {"read", "write"})
         IN  Handled([status |-> 200, user |-> new_user],
                     (new_user_id :> new_user) @@ users_db, revoked_tokens, {})

\* POST /auth/token
login_oauth2(form_data, t) ==
    LET user == authenticate_user(form_data.username, form_data.password)
    IN  IF user = None
        THEN Handled(HTTPException(401, "Incorrect username or password",
                                   WWWAuthenticate),
                     users_db, revoked_tokens, {})
        ELSE LET requested_scopes == form_data.scopes
                 allowed_scopes == {scope \in requested_scopes : scope \in user.scopes}
                 access_token ==
                     create_access_token([sub |-> user.email, scopes |-> allowed_scopes],
                                         AccessTTL, t)
                 new_refresh_token == create_refresh_token([sub |-> user.email], t)
             IN  Handled(Token(access_token, new_refresh_token, allowed_scopes),
                         users_db, revoked_tokens, {access_token, new_refresh_token})

\* GET /admin/users
list_all_users(authorization, t) ==
    LET admin_user == require_role("admin", authorization, t)
    IN  IF admin_user.status # 200
        THEN Handled(admin_user, users_db, revoked_tokens, {})
        ELSE Handled([status |-> 200, users |-> {users_db[i] : i \in UserIds}],
                     users_db, revoked_tokens, {})

\* POST /data/create
create_data(data, authorization, t) ==
    LET user == require_scope("write", authorization, t)
    IN  IF user.status # 200
        THEN Handled(user, users_db, revoked_tokens, {})
        ELSE Handled([status |-> 200, message |-> "Data created successfully",
                      data |-> data, created_by |-> user.user.email],
                     users_db, revoked_tokens, {})

\* GET /data/sensitive
get_sensitive_data(authorization, t) ==
    LET user == require_scope("admin", authorization, t)
    IN  IF user.status # 200
        THEN Handled(user, users_db, revoked_tokens, {})
        ELSE Handled([status |-> 200, accessed_by |-> user.user.email,
                      access_time |-> t],
                     users_db, revoked_tokens, {})

\* What a client of the token endpoint sends: the seeded accounts, an account
\* that may have been registered, a wrong password; no scope, one, or all.
TokenForms ==
    [username : Emails, password : {"user123"}, scopes : {{}, {"read"}, AllScopes}]
    \cup {[username |-> "admin@example.com", password |-> "admin123", scopes |-> S] :
              S \in {{}, AllScopes}}
    \cup {[username |-> "user@example.com", password |-> "wrong", scopes |-> {}]}

Registrations == [email : Emails, password : {"user123"}]

Register(user) ==
    /\ resp = Idle
    /\ Cardinality(UserIds) < MaxUsers
    /\ \A i \in UserIds : i < MaxUsers
    /\ Serve("register", user, register_user(user, now))

LoginOAuth2(form_data) ==
    /\ resp = Idle
    /\ Serve("token", form_data, login_oauth2(form_data, now))

ListAllUsers(authorization) ==
    /\ resp = Idle
    /\ Serve("list_all_users", authorization, list_all_users(authorization, now))

CreateData(authorization) ==
    /\ resp = Idle
    /\ Serve("create_data", authorization, create_data("data", authorization, now))

GetSensitiveData(authorization) ==
    /\ resp = Idle
    /\ Serve("get_sensitive_data", authorization,
             get_sensitive_data(authorization, now))

\* The stores as 09_authentication.py seeds them.  The clock stands still:
\* nothing here depends on a token running out.
InitAccess ==
    /\ now = 0
    /\ ticks = 0
    /\ users_db =
         (1 :> UserInDB(1, "admin@example.com", "admin123", {"admin"},
                        {"read", "write", "admin"})) @@
         (2 :> UserInDB(2, "user@example.com", "user123", {"user"}, {"read", "write"}))
    /\ api_keys_db =
         [k \in {"api_key_123"} |->
            [key |-> k, user_id |-> 1, scopes |-> {"read", "write"},
             is_active |-> TRUE, expires_at |-> None]]
    /\ revoked_tokens = {}
    /\ issued = {}
    /\ resp = Idle
    /\ calls = 0
    /\ period = 0
    /\ rate_limit_storage = <<>>
    /\ burst = <<>>
    /\ pending = <<>>
    /\ requests = <<>>
    /\ running = 0
    /\ task_storage = <<>>
    /\ background = <<>>
    /\ created = 0
    /\ manager = [active_connections |-> <<>>, rooms |-> <<>>, user_connections |-> <<>>]
    /\ endpoints = <<>>
    /\ threads = <<>>

NextAccess ==
    \/ Deliver
    \/ \E user \in Registrations : Register(user)
    \/ \E form_data \in TokenForms : LoginOAuth2(form_data)
    \/ \E authorization \in SessionHeaders : GetMe(authorization)
    \/ \E authorization \in SessionHeaders : ListAllUsers(authorization)
    \/ \E authorization \in SessionHeaders : CreateData(authorization)
    \/ \E authorization \in SessionHeaders : GetSensitiveData(authorization)
    \/ \E user_id \in 1..MaxUsers, authorization \in SessionHeaders :
           DeleteUser(user_id, authorization)

SpecAccess == InitAccess /\ [][NextAccess]_vars

-----------------------------------------------------------------------------
(* Properties of the guards, checked under SpecAccess *)

Forbidden(response) == response.status = 403 /\ response.user = None

\* C24: role and scope guards. For a resolved active user u, require_role(r)
\* returns u exactly when r is among u's roles and require_scope(s) returns u
\* exactly when s is among u's scopes; otherwise the request is refused with
\* 403. A guarded request leaves the stores as they were, and its answer is
\* a function of the presented credentials and the stores.
C24_Guards ==
    [][\A authorization \in SessionHeaders :
           LET u == get_current_active_user(authorization, now)
               Allowed(held, needed) ==
                   /\ needed \in held => resp'.response.status = 200
                   /\ needed \notin held => Forbidden(resp'.response)
           IN  /\ u.status = 200 =>
                     /\ \A r \in {"admin", "user"} :
                            require_role(r, authorization, now) =
                                IF r \in u.user.roles THEN u
                                ELSE HTTPException(403, "Operation requires role", {})
                     /\ \A s \in AllScopes :
                            require_scope(s, authorization, now) =
                                IF s \in u.user.scopes THEN u
                                ELSE HTTPException(403, "Operation requires scope", {})
                     /\ ListAllUsers(authorization) => Allowed(u.user.roles, "admin")
                     /\ CreateData(authorization) =>
                            /\ Allowed(u.user.scopes, "write")
                            /\ resp'.response.status = 200 =>
                                   resp'.response.created_by = u.user.email
                     /\ GetSensitiveData(authorization) =>
                            Allowed(u.user.scopes, "admin")
               /\ (\/ ListAllUsers(authorization)
                   \/ CreateData(authorization)
                   \/ GetSensitiveData(authorization))
                      => UNCHANGED <<users_db, api_keys_db, revoked_tokens, issued>>]_vars

\* C24, witness: the seeded non-admin user, holding read and write, was
\* refused the sensitive data with 403 on presenting a good token.
C24_Witness ==
    /\ resp # Idle
    /\ resp.op = "get_sensitive_data"
    /\ Forbidden(resp.response)
    /\ get_current_active_user(resp.request, now).status = 200
    /\ get_current_active_user(resp.request, now).user.scopes = {"read", "write"}

\* C27: token scopes bound access. A request bearing an access token that
\* login_oauth2 issued with granted scopes S is admitted to an operation
\* guarded by require_scope(s) only if s is in S.
C27_TokenScopesBound ==
    \A needed \in {<<"create_data", "write">>, <<"get_sensitive_data", "admin">>} :
        (/\ resp # Idle
         /\ resp.op = needed[1]
         /\ resp.response.status = 200)
            => needed[2] \in resp.request.credentials.scopes

\* A token is accepted when get_current_user resolves a user from it or
\* refresh_token answers it with new tokens.
Accepted(token) ==
    \/ get_current_user(Bearer(token), now).status = 200
    \/ refresh_token(token, now).response.status = 200

\* C29: tokens of a deleted user stay dead. A token whose user has been
\* deleted is accepted by neither get_current_user nor refresh_token from
\* then on, whatever is registered afterwards.
C29_DeletedTokensStayDead ==
    [][\A token \in issued :
           get_user_by_email(token.sub) = None => ~Accepted(token)']_vars

-----------------------------------------------------------------------------
(* 12_background_tasks.py: batch submission and the scheduler *)

\* What POST /batch-process is sent: no file or one, found on disk or not.
BatchRequests ==
    [file_paths : {<<>>, <<[exists |-> TRUE]>>, <<[exists |-> FALSE]>>},
     operation : {"convert"}]

\* The ids batch_process draws: first the batch's own, then one per file.
RECURSIVE individual_task_ids(_, _)
individual_task_ids(batch_task_id, file_paths) ==
    IF Len(file_paths) = 0 THEN <<>>
    ELSE Append(individual_task_ids(batch_task_id,
                                    SubSeq(file_paths, 1, Len(file_paths) - 1)),
                batch_task_id + Len(file_paths))

\* The registry as batch_process leaves it: a record per file, then the
\* batch-tracking record.
batch_process(storage, batch_task_id, request, t) ==
    LET ids == individual_task_ids(batch_task_id, request.file_paths)
        files == {ids[k] : k \in DOMAIN ids}
    IN  [id \in DOMAIN storage \cup files \cup {batch_task_id} |->
            IF id = batch_task_id
            THEN TaskStatus(batch_task_id,
                            [type |-> "batch_processing", individual_tasks |-> ids,
                             total_files |-> Len(request.file_paths)], t)
            ELSE IF id \in files
            THEN TaskStatus(id,
                            [type |-> "file_processing", batch_id |-> batch_task_id], t)
            ELSE storage[id]]

\* The work batch_process queues: process_file_task for each file, nothing
\* for the batch-tracking record.
batch_work(queued, batch_task_id, request) ==
    LET ids == individual_task_ids(batch_task_id, request.file_paths)
        files == {ids[k] : k \in DOMAIN ids}
        file_request(id) ==
            [exists |-> request.file_paths[id - batch_task_id].exists,
             operation |-> request.operation]
    IN  [id \in DOMAIN queued \cup files |->
            IF id \in files THEN process_file_task(file_request(id))
            ELSE queued[id]]

BatchProcess(request) ==
    /\ resp = Idle
    /\ created + 1 + Len(request.file_paths) <= MaxTasks
    /\ LET fresh_id == created + 1
       IN  /\ created' = fresh_id + Len(request.file_paths)
           /\ task_storage' = batch_process(task_storage, fresh_id, request, now)
           /\ background' = batch_work(background, fresh_id, request)
           /\ resp' = [op |-> "batch_process", request |-> request,
                       response |->
                           [status_code |-> 200,
                            body |-> [batch_task_id |-> fresh_id,
                                      individual_tasks |->
                                          individual_task_ids(fresh_id,
                                                              request.file_paths),
                                      total_files |-> Len(request.file_paths)]]]
    /\ UNCHANGED <<now, ticks, authVars, rateVars, loopVars, moreVars>>

\* One pass of run_scheduler that finds the periodic cleanup due: the record
\* is inserted and the work started with asyncio.create_task.  The hour
\* between two runs is not counted; a run may come at any time.
RunScheduler ==
    /\ created < MaxTasks
    /\ LET task_id == created + 1
       IN  /\ created' = task_id
           /\ task_storage' =
                  Put(task_storage, task_id,
                      TaskStatus(task_id, [scheduled_task |-> "database_cleanup"], now))
           /\ background' = Put(background, task_id, database_cleanup_task)
    /\ UNCHANGED <<now, ticks, authVars, rateVars, loopVars, moreVars, resp>>

InitBatch ==
    /\ now = 0
    /\ ticks = 0
    /\ task_storage = <<>>
    /\ background = <<>>
    /\ created = 0
    /\ resp = Idle
    /\ calls = 0
    /\ period = 0
    /\ rate_limit_storage = <<>>
    /\ burst = <<>>
    /\ pending = <<>>
    /\ requests = <<>>
    /\ running = 0
    /\ users_db = <<>>
    /\ api_keys_db = <<>>
    /\ revoked_tokens = {}
    /\ issued = {}
    /\ manager = [active_connections |-> <<>>, rooms |-> <<>>, user_connections |-> <<>>]
    /\ endpoints = <<>>
    /\ threads = <<>>

\* No record is deleted here: DELETE /task/{task_id} is left out.
NextBatch ==
    \/ Deliver
    \/ \E email_request \in EmailRequests : SendEmail(email_request)
    \/ \E file_request \in FileProcessRequests : ProcessFile(file_request)
    \/ \E request \in BatchRequests : BatchProcess(request)
    \/ RunScheduler
    \/ \E task_id \in 1..MaxTasks : Work(task_id)

\* The event loop runs every coroutine that is ready, and a response that was
\* sent is taken: background work that can go on does go on.
SpecBatch ==
    /\ InitBatch
    /\ [][NextBatch]_vars
    /\ WF_vars(Deliver)
    /\ \A task_id \in 1..MaxTasks : SF_vars(Work(task_id))

\* C26: task liveness. Every record in the registry, whether a submit
\* endpoint, batch_process or the scheduler put it there, eventually has
\* status completed or failed, when background work is run fairly and no
\* record is deleted.
C26_TaskLiveness ==
    \A task_id \in 1..MaxTasks :
        (task_id \in DOMAIN task_storage)
            ~> (task_id \in DOMAIN task_storage
                /\ task_storage[task_id].status \in Terminal)

-----------------------------------------------------------------------------
(* 09_authentication.py: register_user in the thread pool.  The route is a  *)
(* plain `def`, so each call runs in a worker thread and the interpreter    *)
(* may switch threads between any two statements.                           *)

NewEmails == {"new@example.com", "other@example.com", "third@example.com"}

\* A worker thread entering register_user(user).
Thread(user) ==
    [pc |-> "check", user |-> user, new_user_id |-> 0, response |-> [status |-> 0]]

\* if get_user_by_email(user.email): raise HTTPException(400, ...)
CheckEmail(t) ==
    /\ threads[t].pc = "check"
    /\ threads' =
           IF get_user_by_email(threads[t].user.email) # None
           THEN [threads EXCEPT
                    ![t].pc = "done",
                    ![t].response = [status |-> 400]]
           ELSE [threads EXCEPT ![t].pc = "new_user_id"]
    /\ UNCHANGED <<now, ticks, authVars, resp, rateVars, loopVars, taskVars, sockVars>>

\* new_user_id = max(users_db.keys()) + 1
NewUserId(t) ==
    /\ threads[t].pc = "new_user_id"
    /\ threads' = [threads EXCEPT ![t].pc = "store",
                                  ![t].new_user_id = MaxId(UserIds) + 1]
    /\ UNCHANGED <<now, ticks, authVars, resp, rateVars, loopVars, taskVars, sockVars>>

\* users_db[new_user_id] = new_user; return UserResponse(**new_user.dict())
StoreUser(t) ==
    /\ threads[t].pc = "store"
    /\ users_db' =
           Put(users_db, threads[t].new_user_id,
               UserInDB(threads[t].new_user_id, threads[t].user.email,
                        threads[t].user.password, {"user"}, {"read", "write"}))
    /\ threads' = [threads EXCEPT ![t].pc = "done", ![t].response = [status |-> 200]]
    /\ UNCHANGED <<now, ticks, api_keys_db, revoked_tokens, issued, resp, rateVars,
                   loopVars, taskVars, sockVars>>

\* The seeded stores, and MaxThreads calls of register_user about to start,
\* each with an email no account has.
InitRegister ==
    /\ now = 0
    /\ ticks = 0
    /\ users_db =
         (1 :> UserInDB(1, "admin@example.com", "admin123", {"admin"},
                        {"read", "write", "admin"})) @@
         (2 :> UserInDB(2, "user@example.com", "user123", {"user"}, {"read", "write"}))
    /\ api_keys_db = <<>>
    /\ revoked_tokens = {}
    /\ issued = {}
    /\ resp = Idle
    /\ calls = 0
    /\ period = 0
    /\ rate_limit_storage = <<>>
    /\ burst = <<>>
    /\ pending = <<>>
    /\ requests = <<>>
    /\ running = 0
    /\ task_storage = <<>>
    /\ background = <<>>
    /\ created = 0
    /\ manager = [active_connections |-> <<>>, rooms |-> <<>>, user_connections |-> <<>>]
    /\ endpoints = <<>>
    /\ threads \in [1..MaxThreads ->
                       {Thread([email |-> email, password |-> "user123"]) :
                            email \in NewEmails}]

NextRegister ==
    \/ \E t \in 1..MaxThreads : CheckEmail(t)
    \/ \E t \in 1..MaxThreads : NewUserId(t)
    \/ \E t \in 1..MaxThreads : StoreUser(t)

SpecRegister == InitRegister /\ [][NextRegister]_vars

\* The calls that returned success.
Registered == {t \in DOMAIN threads : threads[t].response.status = 200}

\* C28: registration ids are unique and registrations are not lost. When
\* concurrent register_user calls with distinct unused emails have all
\* finished, the successful calls have distinct ids, users_db has a record
\* for each of them, and no two records share an email.
C28_UniqueRegistrations ==
    (/\ \A t \in DOMAIN threads : threads[t].pc = "done"
     /\ \A t1, t2 \in DOMAIN threads :
            t1 # t2 => threads[t1].user.email # threads[t2].user.email)
        => /\ \A t1, t2 \in Registered :
                  t1 # t2 => threads[t1].new_user_id # threads[t2].new_user_id
           /\ \A t \in Registered :
                  \E i \in UserIds : users_db[i].email = threads[t].user.email
           /\ \A i, j \in UserIds : i # j => users_db[i].email # users_db[j].email

-----------------------------------------------------------------------------
(* 15_advanced_features.py: the WebSocket ConnectionManager.  A websocket   *)
(* is named by the order in which it was accepted.                          *)

SocketUsers == {"alice", "bob"}
Rooms == {"lobby"}

\* room=None, user_id=None: `if room:` is false for None and for "".
Unset == ""

\* list.remove(x): the first occurrence goes.
ListRemove(list, x) ==
    LET i == CHOOSE k \in 1..Len(list) :
                 list[k] = x /\ \A j \in 1..(k - 1) : list[j] # x
    IN  SubSeq(list, 1, i - 1) \o SubSeq(list, i + 1, Len(list))

Contains(list, x) == \E k \in 1..Len(list) : list[k] = x

\* ConnectionManager.connect, after `await websocket.accept()`.
connect(self, websocket, room, user_id) ==
    [active_connections |-> Append(self.active_connections, websocket),
     rooms |->
         IF room # Unset
         THEN Put(self.rooms, room,
                  Append(IF room \in DOMAIN self.rooms THEN self.rooms[room] ELSE <<>>,
                         websocket))
         ELSE self.rooms,
     user_connections |->
         IF user_id # Unset THEN Put(self.user_connections, user_id, websocket)
         ELSE self.user_connections]

\* ConnectionManager.disconnect.
disconnect(self, websocket, room, user_id) ==
    [active_connections |->
         IF Contains(self.active_connections, websocket)
         THEN ListRemove(self.active_connections, websocket)
         ELSE self.active_connections,
     rooms |->
         IF room # Unset /\ room \in DOMAIN self.rooms
         THEN LET left == IF Contains(self.rooms[room], websocket)
                          THEN ListRemove(self.rooms[room], websocket)
                          ELSE self.rooms[room]
              IN  IF Len(left) = 0 THEN Remove(self.rooms, room)
                  ELSE Put(self.rooms, room, left)
         ELSE self.rooms,
     user_connections |->
         IF user_id # Unset /\ user_id \in DOMAIN self.user_connections
         THEN Remove(self.user_connections, user_id)
         ELSE self.user_connections]

RECURSIVE Sweep(_, _, _)
\* `for connection in list:` with list.remove(connection) for each send that
\* raised WebSocketDisconnect: after a removal the loop's index moves on and
\* passes over the element that slid into the freed place.
Sweep(list, i, failed) ==
    IF i > Len(list) THEN list
    ELSE IF list[i] \in failed THEN Sweep(ListRemove(list, list[i]), i + 1, failed)
    ELSE Sweep(list, i + 1, failed)

\* ConnectionManager.broadcast_to_room; failed are the websockets whose
\* send_text raises WebSocketDisconnect.
broadcast_to_room(self, room, failed) ==
    IF room \in DOMAIN self.rooms
    THEN [self EXCEPT !.rooms = Put(self.rooms, room, Sweep(self.rooms[room], 1, failed))]
    ELSE self

\* ConnectionManager.send_to_user: the websocket the message is sent on, 0
\* for none.
send_to_user(self, user_id) ==
    IF user_id \in DOMAIN self.user_connections THEN self.user_connections[user_id]
    ELSE 0

\* The coroutine of a websocket route with its arguments.
Endpoint(handler, room, user_id) ==
    [route |-> handler, room |-> room, user_id |-> user_id, state |-> "open"]

\* The websockets whose client has gone while the route has not yet seen it:
\* a send to one of them may raise WebSocketDisconnect or be dropped.
Gone == {ws \in DOMAIN endpoints : endpoints[ws].state = "gone"}

Accepts(handler, room, user_id, failed) ==
    /\ Len(endpoints) < MaxSockets
    /\ LET websocket == Len(endpoints) + 1
           connected == connect(manager, websocket, room, user_id)
       IN  /\ manager' = IF handler = "chat_websocket"
                         THEN broadcast_to_room(connected, room, failed)
                         ELSE connected
           /\ endpoints' = Append(endpoints, Endpoint(handler, room, user_id))
    /\ UNCHANGED <<now, ticks, authVars, resp, rateVars, loopVars, taskVars, threads>>

\* /ws/{user_id}
WebsocketEndpoint(user_id) ==
    /\ resp = Idle
    /\ Accepts("websocket_endpoint", Unset, user_id, {})

\* /ws/chat/{room}/{user_id}: connect, then the join message to the room.
ChatWebsocket(room, user_id, failed) ==
    /\ resp = Idle
    /\ Accepts("chat_websocket", room, user_id, failed)

\* /ws/notifications/{user_id}
NotificationsWebsocket(user_id) ==
    /\ resp = Idle
    /\ Accepts("notifications_websocket", Unset, user_id, {})

\* The client of a websocket closes it.
ClientLeaves(ws) ==
    /\ resp = Idle
    /\ ws \in DOMAIN endpoints
    /\ endpoints[ws].state = "open"
    /\ endpoints' = [endpoints EXCEPT ![ws].state = "gone"]
    /\ UNCHANGED <<now, ticks, authVars, resp, rateVars, loopVars, taskVars, threads,
                   manager>>

\* A chat message arrives and is broadcast to the room.
ChatMessage(ws, failed) ==
    /\ resp = Idle
    /\ ws \in DOMAIN endpoints
    /\ endpoints[ws].state = "open"
    /\ endpoints[ws].route = "chat_websocket"
    /\ manager' = broadcast_to_room(manager, endpoints[ws].room, failed)
    /\ UNCHANGED <<now, ticks, authVars, resp, rateVars, loopVars, taskVars, threads,
                   endpoints>>

\* receive_text raises WebSocketDisconnect in the route of ws: the except
\* clause calls manager.disconnect with the route's own arguments, and the
\* chat route then broadcasts the leave message.
Disconnected(ws, failed) ==
    /\ resp = Idle
    /\ ws \in DOMAIN endpoints
    /\ endpoints[ws].state = "gone"
    /\ LET left == disconnect(manager, ws, endpoints[ws].room, endpoints[ws].user_id)
       IN  manager' = IF endpoints[ws].route = "chat_websocket"
                      THEN broadcast_to_room(left, endpoints[ws].room, failed)
                      ELSE left
    /\ endpoints' = [endpoints EXCEPT ![ws].state = "closed"]
    /\ UNCHANGED <<now, ticks, authVars, resp, rateVars, loopVars, taskVars, threads>>

\* NotificationService.send_notification -> manager.send_to_user
SendToUser(user_id) ==
    /\ resp = Idle
    /\ resp' = [op |-> "send_to_user", request |-> user_id,
                response |-> [websocket |-> send_to_user(manager, user_id)]]
    /\ UNCHANGED <<now, ticks, authVars, rateVars, restVars>>

InitSockets ==
    /\ now = 0
    /\ ticks = 0
    /\ users_db = <<>>
    /\ api_keys_db = <<>>
    /\ revoked_tokens = {}
    /\ issued = {}
    /\ resp = Idle
    /\ calls = 0
    /\ period = 0
    /\ rate_limit_storage = <<>>
    /\ burst = <<>>
    /\ pending = <<>>
    /\ requests = <<>>
    /\ running = 0
    /\ task_storage = <<>>
    /\ background = <<>>
    /\ created = 0
    /\ manager = [active_connections |-> <<>>, rooms |-> <<>>, user_connections |-> <<>>]
    /\ endpoints = <<>>
    /\ threads = <<>>

NextSockets ==
    \/ Deliver
    \/ \E user_id \in SocketUsers : WebsocketEndpoint(user_id)
    \/ \E room \in Rooms, user_id \in SocketUsers, failed \in SUBSET Gone :
           ChatWebsocket(room, user_id, failed)
    \/ \E user_id \in SocketUsers : NotificationsWebsocket(user_id)
    \/ \E ws \in 1..MaxSockets : ClientLeaves(ws)
    \/ \E ws \in 1..MaxSockets, failed \in SUBSET Gone : ChatMessage(ws, failed)
    \/ \E ws \in 1..MaxSockets, failed \in SUBSET Gone : Disconnected(ws, failed)
    \/ \E user_id \in SocketUsers : SendToUser(user_id)

SpecSockets == InitSockets /\ [][NextSockets]_vars

\* The websockets connected under user_id and not yet disconnected.
Connected(user_id) ==
    {ws \in DOMAIN endpoints :
         endpoints[ws].user_id = user_id /\ endpoints[ws].state # "closed"}

\* C30: WebSocket user registry consistency. After any sequence of connect
\* and disconnect calls a user_id has an entry in user_connections exactly
\* when some websocket connected under it has not been disconnected, and
\* the entry is such a websocket.
C30_UserRegistryConsistent ==
    \A user_id \in SocketUsers :
        /\ user_id \in DOMAIN manager.user_connections <=> Connected(user_id) # {}
        /\ user_id \in DOMAIN manager.user_connections =>
               manager.user_connections[user_id] \in Connected(user_id)

====
